---- MODULE Spec2Model ----
(***************************************************************************)
(* SMART disk statistics (cmk/base/plugins/agent_based/smart.py):          *)
(* discovery of the baseline parameter set and evaluation of a reading     *)
(* against it, with the persistent rate state of Command_Timeout_Counter.  *)
(***************************************************************************)
EXTENDS Integers, Sequences, FiniteSets, TLC

VARIABLES
    value_store,      \* item -> <<>> (no entry) or <<time, value>> under key "cmd_timeout"
    value_store_pre,  \* the value store as it was when the running call started
    clock,            \* wall-clock time of the latest evaluation
    op,               \* "idle", "discover" or "check": the call whose results are pending
    arg_item,         \* check_smart_stats: item
    arg_params,       \* check_smart_stats: params
    arg_section,      \* discover_smart_stats / check_smart_stats: section
    arg_now,          \* check_smart_stats: the value time.time() returned
    out,              \* what check_smart_stats yielded (Result and Metric records)
    exc,              \* "" or the exception that ended check_smart_stats
    services,         \* what discover_smart_stats yielded (Service records)
    params_post,      \* the params mapping as check_smart_stats left it
    section_post,     \* the section mapping as check_smart_stats left it
    arg_string_table, \* parse_raw_values: the tokenized lines it was handed
    parsed            \* parse_raw_values: the section it returned

vars == <<value_store, value_store_pre, clock, op, arg_item, arg_params,
          arg_section, arg_now, out, exc, services, params_post, section_post,
          arg_string_table, parsed>>

----------------------------------------------------------------------------
(* Bounds of the explored inputs *)

MaxAttrs == 3      \* attribute entries in one section
MaxVal == 1        \* attribute values are 0..MaxVal
MaxLines == 2      \* lines of one raw agent section

Devices == {"/dev/sda", "/dev/nvme0n1"}
DeviceOrder == <<"/dev/sda", "/dev/nvme0n1">>
MonitoredItem == "/dev/sda"

----------------------------------------------------------------------------
(* Attribute registry *)

DiskAttributeItem(name, capture_on_discovery) ==
    [name |-> name, capture_on_discovery |-> capture_on_discovery]

DiskAttribute == <<
    DiskAttributeItem("Reallocated_Sectors", TRUE),
    DiskAttributeItem("Power_On_Hours", FALSE),
    DiskAttributeItem("Spin_Retries", TRUE),
    DiskAttributeItem("Power_Cycles", FALSE),
    DiskAttributeItem("End-to-End_Errors", TRUE),
    DiskAttributeItem("Uncorrectable_Errors", TRUE),
    DiskAttributeItem("Command_Timeout_Counter", TRUE),
    DiskAttributeItem("Temperature", FALSE),
    DiskAttributeItem("Reallocated_Events", TRUE),
    DiskAttributeItem("Pending_Sectors", TRUE),
    DiskAttributeItem("UDMA_CRC_Errors", TRUE),
    DiskAttributeItem("CRC_Errors", TRUE),
    DiskAttributeItem("Critical_Warning", TRUE),
    DiskAttributeItem("Media_and_Data_Integrity_Errors", TRUE),
    DiskAttributeItem("Available_Spare", FALSE),
    DiskAttributeItem("Percentage_Used", FALSE),
    DiskAttributeItem("Error_Information_Log_Entries", FALSE),
    DiskAttributeItem("Data_Units_Read", FALSE),
    DiskAttributeItem("Data_Units_Written", FALSE) >>

COMMAND_TIMEOUT_COUNTER == "Command_Timeout_Counter"
TEMPERATURE == "Temperature"
REALLOCATED_EVENTS == "Reallocated_Events"
AVAILABLE_SPARE == "Available_Spare"
AVAILABLE_SPARE_THRESHOLD == "Available_Spare_Threshold"
NORMALIZED_VALUE == "_normalized_value_Reallocated_Events"
NORMALIZED_THRESHOLD == "_normalized_threshold_Reallocated_Events"

MAX_COMMAND_TIMEOUTS_PER_HOUR == 100

RegistryNames == {DiskAttribute[i].name : i \in 1..Len(DiskAttribute)}
CaptureNames ==
    {DiskAttribute[i].name : i \in {j \in 1..Len(DiskAttribute) :
                                       DiskAttribute[j].capture_on_discovery}}

OK == "OK"
CRIT == "CRIT"

Result(name, state, hints) ==
    [kind |-> "Result", name |-> name, state |-> state, hints |-> hints]
Metric(name, value) ==
    [kind |-> "Metric", name |-> name, value |-> value]
Service(item, parameters) ==
    [item |-> item, parameters |-> parameters]

----------------------------------------------------------------------------
(* discover_smart_stats *)

\* captured with the attribute's initial value instead of the current one
captured_zeroed(disk) ==
    [n \in {m \in CaptureNames : m \in DOMAIN disk} |-> 0]

\* captured without the capture_on_discovery filter
captured_unfiltered(disk) ==
    [n \in {m \in RegistryNames : m \in DOMAIN disk} |-> disk[n]]

captured(disk) ==
    [n \in {m \in CaptureNames : m \in DOMAIN disk} |-> disk[n]]

RECURSIVE discover_loop(_, _, _)
discover_loop(i, section, acc) ==
    IF i > Len(DeviceOrder) THEN acc
    ELSE LET disk_name == DeviceOrder[i]
         IN IF disk_name \notin DOMAIN section
            THEN discover_loop(i + 1, section, acc)
            ELSE IF DOMAIN captured(section[disk_name]) # {}
                 THEN discover_loop(i + 1, section,
                          Append(acc, Service(disk_name, captured(section[disk_name]))))
                 ELSE discover_loop(i + 1, section, acc)

discover_smart_stats(section) == discover_loop(1, section, <<>>)

----------------------------------------------------------------------------
(* Rate state collaborator: get_rate(get_value_store(), "cmd_timeout", now, value).
   The observation is stored in every case.  No rate is available (the call
   fails) on the first observation, when no time has passed, and when the
   counter went backwards, which starts a fresh baseline. *)

\* get_value_store() with one store for all items
get_value_store_shared(item) == "/dev/sda"

\* get_value_store(): the store of the service that is being checked, one per item
get_value_store(item) == item

get_rate(entry, now, value) ==
    IF entry = <<>>
    THEN [stored |-> <<now, value>>, raised |-> TRUE, num |-> 0, den |-> 1]
    ELSE IF now <= entry[1] \/ value < entry[2]
         THEN [stored |-> <<now, value>>, raised |-> TRUE, num |-> 0, den |-> 1]
         ELSE [stored |-> <<now, value>>, raised |-> FALSE,
               num |-> value - entry[2], den |-> now - entry[1]]

----------------------------------------------------------------------------
(* check_smart_stats *)

\* ref_value_of with params.get(attribute.name, 0)
ref_value_of_or_zero(name, disk, params) ==
    IF name = AVAILABLE_SPARE
    THEN <<disk[AVAILABLE_SPARE_THRESHOLD]>>
    ELSE IF name \in DOMAIN params THEN <<params[name]>> ELSE <<0>>

\* ref_value_of without the replacement for Available_Spare
ref_value_of_params(name, disk, params) ==
    IF name \in DOMAIN params THEN <<params[name]>> ELSE <<>>

\* params.get(attribute.name), replaced by the spare threshold of the reading
ref_value_of(name, disk, params) ==
    IF name = AVAILABLE_SPARE
    THEN <<disk[AVAILABLE_SPARE_THRESHOLD]>>
    ELSE IF name \in DOMAIN params THEN <<params[name]>> ELSE <<>>

\* default_state with value >= ref_value
default_state_inclusive(name, value, ref_value) ==
    IF name = AVAILABLE_SPARE
    THEN (IF value < ref_value THEN CRIT ELSE OK)
    ELSE (IF value >= ref_value THEN CRIT ELSE OK)

default_state(name, value, ref_value) ==
    IF name = AVAILABLE_SPARE
    THEN (IF value < ref_value THEN CRIT ELSE OK)
    ELSE (IF value > ref_value THEN CRIT ELSE OK)

default_hints(state, ref_value) ==
    IF state = OK THEN <<>>
    ELSE << [hint |-> "during discovery (!!)", value |-> ref_value] >>

\* rate_state with rate <= the ceiling
rate_state_inclusive(num, den) ==
    IF num * (60 * 60) <= MAX_COMMAND_TIMEOUTS_PER_HOUR * den THEN OK ELSE CRIT

\* rate < MAX_COMMAND_TIMEOUTS_PER_HOUR / (60 * 60), the rate being num / den, den > 0
rate_state(num, den) ==
    IF num * (60 * 60) < MAX_COMMAND_TIMEOUTS_PER_HOUR * den THEN OK ELSE CRIT

rate_hints(state, ref_value) ==
    IF state = OK THEN <<>>
    ELSE << [hint |-> "counter increased more than 100 counts / h (!!). Value during discovery was",
             value |-> ref_value] >>

\* missing_normalized_state keeping the state of the raw comparison
missing_normalized_state_raw(state) == state

\* the state yielded when a normalized key is missing (except KeyError)
missing_normalized_state(state) == OK

normalized_state(state, norm_value, norm_threshold) ==
    IF norm_value <= norm_threshold THEN CRIT ELSE state

normalized_hints(hints, norm_value, norm_threshold) ==
    Append(hints,
           [hint |-> IF norm_value <= norm_threshold
                     THEN "normalized value (!!)" ELSE "normalized value",
            value |-> norm_value])

yield(acc, name, state, hints, value) ==
    [acc EXCEPT !.out = Append(Append(@, Result(name, state, hints)), Metric(name, value))]

\* rate_yield with the failure of get_rate swallowed and a rate of zero used
rate_yield_default(acc, name, value, ref_value, rate) ==
    IF rate.raised
    THEN yield(acc, name, rate_state(0, 1), rate_hints(rate_state(0, 1), ref_value), value)
    ELSE yield(acc, name, rate_state(rate.num, rate.den),
               rate_hints(rate_state(rate.num, rate.den), ref_value), value)

\* what follows the call of get_rate: its exception leaves the function,
\* its rate decides the state that is yielded
rate_yield(acc, name, value, ref_value, rate) ==
    IF rate.raised
    THEN [acc EXCEPT !.exc = "GetRateError"]
    ELSE yield(acc, name, rate_state(rate.num, rate.den),
               rate_hints(rate_state(rate.num, rate.den), ref_value), value)

\* A reading with an attribute and no reference value for it: the attribute
\* is reported as it is, and the loop goes on to the next attribute before
\* the normalized pair is looked at.
no_reference_cross_checked(acc, name, disk, value) ==
    IF name = REALLOCATED_EVENTS
       /\ NORMALIZED_VALUE \in DOMAIN disk /\ NORMALIZED_THRESHOLD \in DOMAIN disk
    THEN yield(acc, name,
               normalized_state(OK, disk[NORMALIZED_VALUE], disk[NORMALIZED_THRESHOLD]),
               normalized_hints(<<>>, disk[NORMALIZED_VALUE], disk[NORMALIZED_THRESHOLD]),
               value)
    ELSE yield(acc, name, OK, <<>>, value)

no_reference(acc, name, disk, value) ==
    yield(acc, name, OK, <<>>, value)

\* The branch of the loop body that an attribute takes:
\*   "skipped"        Temperature, left to another check
\*   "absent"         the reading has no value for the attribute
\*   "raises"         the subscript of the reading's threshold fails
\*   "informational"  reported with state OK, whatever the value
\*   "compared"       the state comes from a comparison with the reference
\*   "rate-tracked"   the state comes from the rate of the counter
path_by_value(name, disk, params) ==
    IF name = TEMPERATURE THEN "skipped"
    ELSE IF name \notin DOMAIN disk THEN "absent"
    ELSE IF name = AVAILABLE_SPARE /\ AVAILABLE_SPARE_THRESHOLD \notin DOMAIN disk
    THEN "raises"
    ELSE IF ref_value_of(name, disk, params) = <<>> \/ disk[name] = 0
    THEN "informational"
    ELSE IF name = REALLOCATED_EVENTS
    THEN IF NORMALIZED_VALUE \notin DOMAIN disk
            \/ NORMALIZED_THRESHOLD \notin DOMAIN disk
         THEN "informational"
         ELSE "compared"
    ELSE IF name = COMMAND_TIMEOUT_COUNTER THEN "rate-tracked"
    ELSE "compared"

path(name, disk, params) ==
    IF name = TEMPERATURE THEN "skipped"
    ELSE IF name \notin DOMAIN disk THEN "absent"
    ELSE IF name = AVAILABLE_SPARE /\ AVAILABLE_SPARE_THRESHOLD \notin DOMAIN disk
    THEN "raises"
    ELSE IF ref_value_of(name, disk, params) = <<>> THEN "informational"
    ELSE IF name = REALLOCATED_EVENTS
    THEN IF NORMALIZED_VALUE \notin DOMAIN disk
            \/ NORMALIZED_THRESHOLD \notin DOMAIN disk
         THEN "informational"
         ELSE "compared"
    ELSE IF name = COMMAND_TIMEOUT_COUNTER THEN "rate-tracked"
    ELSE "compared"

\* The body of the loop over DiskAttribute for one attribute.
\* acc.out: what was yielded so far, acc.entry: the value store entry of the
\* item, acc.exc: the exception that left the function, if any.
check_attribute(name, disk, params, now, acc) ==
    LET taken == path(name, disk, params)
    IN IF taken \in {"skipped", "absent"} THEN acc
       ELSE IF taken = "raises" THEN [acc EXCEPT !.exc = "KeyError"]
       ELSE
         LET value == disk[name]
             ref == ref_value_of(name, disk, params)
         IN IF taken = "informational"
            THEN IF ref = <<>>
                 THEN no_reference(acc, name, disk, value)
                 ELSE yield(acc, name,
                            missing_normalized_state(
                                default_state(name, value, ref[1])),
                            <<>>, value)
            ELSE
              LET ref_value == ref[1]
                  state == default_state(name, value, ref_value)
                  hints == default_hints(state, ref_value)
              IN IF taken = "rate-tracked"
                 THEN LET rate == get_rate(acc.entry, now, value)
                          stored == [acc EXCEPT !.entry = rate.stored]
                      IN rate_yield(stored, name, value, ref_value, rate)
                 ELSE IF name = REALLOCATED_EVENTS
                 THEN yield(acc, name,
                            normalized_state(state, disk[NORMALIZED_VALUE],
                                             disk[NORMALIZED_THRESHOLD]),
                            normalized_hints(hints, disk[NORMALIZED_VALUE],
                                             disk[NORMALIZED_THRESHOLD]),
                            value)
                 ELSE yield(acc, name, state, hints, value)

RECURSIVE check_loop(_, _, _, _, _)
check_loop(i, disk, params, now, acc) ==
    IF i > Len(DiskAttribute) \/ acc.exc # "" THEN acc
    ELSE check_loop(i + 1, disk, params, now,
                    check_attribute(DiskAttribute[i].name, disk, params, now, acc))

check_smart_stats(item, params, section, now, entry) ==
    IF item \notin DOMAIN section
    THEN [out |-> <<>>, entry |-> entry, exc |-> ""]
    ELSE check_loop(1, section[item], params, now,
                    [out |-> <<>>, entry |-> entry, exc |-> ""])

\* params_after_check with params.setdefault(name, value) for the attributes read
params_after_check_setdefault(item, params, section) ==
    IF item \notin DOMAIN section THEN params
    ELSE [n \in DOMAIN params \cup (RegistryNames \cap DOMAIN section[item]) |->
             IF n \in DOMAIN params THEN params[n] ELSE section[item][n]]

\* the mappings handed to check_smart_stats when it returns: params is only
\* read (params.get), section and disk are only read (get, subscripts)
params_after_check(item, params, section) == params

section_after_check(item, params, section) == section

----------------------------------------------------------------------------
(* Strings of the raw agent section: a string is the sequence of its
   characters, each a one-character string *)

chars(s) ==
    CASE s = "Reallocated_Sectors" ->
          <<"R", "e", "a", "l", "l", "o", "c", "a", "t", "e", "d", "_", "S", "e", "c", "t", "o", "r", "s">>
      [] s = "Power_On_Hours" ->
          <<"P", "o", "w", "e", "r", "_", "O", "n", "_", "H", "o", "u", "r", "s">>
      [] s = "Spin_Retries" ->
          <<"S", "p", "i", "n", "_", "R", "e", "t", "r", "i", "e", "s">>
      [] s = "Power_Cycles" ->
          <<"P", "o", "w", "e", "r", "_", "C", "y", "c", "l", "e", "s">>
      [] s = "End-to-End_Errors" ->
          <<"E", "n", "d", "-", "t", "o", "-", "E", "n", "d", "_", "E", "r", "r", "o", "r", "s">>
      [] s = "Uncorrectable_Errors" ->
          <<"U", "n", "c", "o", "r", "r", "e", "c", "t", "a", "b", "l", "e", "_", "E", "r", "r", "o", "r", "s">>
      [] s = "Command_Timeout_Counter" ->
          <<"C", "o", "m", "m", "a", "n", "d", "_", "T", "i", "m", "e", "o", "u", "t", "_", "C", "o", "u", "n", "t", "e", "r">>
      [] s = "Temperature" ->
          <<"T", "e", "m", "p", "e", "r", "a", "t", "u", "r", "e">>
      [] s = "Reallocated_Events" ->
          <<"R", "e", "a", "l", "l", "o", "c", "a", "t", "e", "d", "_", "E", "v", "e", "n", "t", "s">>
      [] s = "Pending_Sectors" ->
          <<"P", "e", "n", "d", "i", "n", "g", "_", "S", "e", "c", "t", "o", "r", "s">>
      [] s = "UDMA_CRC_Errors" ->
          <<"U", "D", "M", "A", "_", "C", "R", "C", "_", "E", "r", "r", "o", "r", "s">>
      [] s = "CRC_Errors" ->
          <<"C", "R", "C", "_", "E", "r", "r", "o", "r", "s">>
      [] s = "Critical_Warning" ->
          <<"C", "r", "i", "t", "i", "c", "a", "l", "_", "W", "a", "r", "n", "i", "n", "g">>
      [] s = "Media_and_Data_Integrity_Errors" ->
          <<"M", "e", "d", "i", "a", "_", "a", "n", "d", "_", "D", "a", "t", "a", "_", "I", "n", "t", "e", "g", "r", "i", "t", "y", "_", "E", "r", "r", "o", "r", "s">>
      [] s = "Available_Spare" ->
          <<"A", "v", "a", "i", "l", "a", "b", "l", "e", "_", "S", "p", "a", "r", "e">>
      [] s = "Percentage_Used" ->
          <<"P", "e", "r", "c", "e", "n", "t", "a", "g", "e", "_", "U", "s", "e", "d">>
      [] s = "Error_Information_Log_Entries" ->
          <<"E", "r", "r", "o", "r", "_", "I", "n", "f", "o", "r", "m", "a", "t", "i", "o", "n", "_", "L", "o", "g", "_", "E", "n", "t", "r", "i", "e", "s">>
      [] s = "Data_Units_Read" ->
          <<"D", "a", "t", "a", "_", "U", "n", "i", "t", "s", "_", "R", "e", "a", "d">>
      [] s = "Data_Units_Written" ->
          <<"D", "a", "t", "a", "_", "U", "n", "i", "t", "s", "_", "W", "r", "i", "t", "t", "e", "n">>
      [] s = "_normalized_value_Reallocated_Events" ->
          <<"_", "n", "o", "r", "m", "a", "l", "i", "z", "e", "d", "_", "v", "a", "l", "u", "e", "_", "R", "e", "a", "l", "l", "o", "c", "a", "t", "e", "d", "_", "E", "v", "e", "n", "t", "s">>
      [] s = "_normalized_threshold_Reallocated_Events" ->
          <<"_", "n", "o", "r", "m", "a", "l", "i", "z", "e", "d", "_", "t", "h", "r", "e", "s", "h", "o", "l", "d", "_", "R", "e", "a", "l", "l", "o", "c", "a", "t", "e", "d", "_", "E", "v", "e", "n", "t", "s">>
      [] s = "Unknown_Attribute" ->
          <<"U", "n", "k", "n", "o", "w", "n", "_", "A", "t", "t", "r", "i", "b", "u", "t", "e">>
      [] s = "UDMA_CRC_Error_Count" ->
          <<"U", "D", "M", "A", "_", "C", "R", "C", "_", "E", "r", "r", "o", "r", "_", "C", "o", "u", "n", "t">>
      [] s = "/dev" ->
          <<"/", "d", "e", "v">>
      [] s = "Critical Warning" ->
          <<"C", "r", "i", "t", "i", "c", "a", "l", " ", "W", "a", "r", "n", "i", "n", "g">>
      [] s = "Data Units Read" ->
          <<"D", "a", "t", "a", " ", "U", "n", "i", "t", "s", " ", "R", "e", "a", "d">>
      [] s = "Data Units Written" ->
          <<"D", "a", "t", "a", " ", "U", "n", "i", "t", "s", " ", "W", "r", "i", "t", "t", "e", "n">>
      [] s = "" ->
          <<>>
      [] s = " " ->
          <<" ">>
      [] s = "_" ->
          <<"_">>
      [] s = ":" ->
          <<":">>
      [] s = "%" ->
          <<"%">>
      [] s = "." ->
          <<".">>
      [] s = "," ->
          <<",">>
      [] s = "/dev/sda" ->
          <<"/", "d", "e", "v", "/", "s", "d", "a">>
      [] s = "/dev/sdb" ->
          <<"/", "d", "e", "v", "/", "s", "d", "b">>
      [] s = "ATA" ->
          <<"A", "T", "A">>
      [] s = "WDC" ->
          <<"W", "D", "C">>
      [] s = "0x0012" ->
          <<"0", "x", "0", "0", "1", "2">>
      [] s = "Old_age" ->
          <<"O", "l", "d", "_", "a", "g", "e">>
      [] s = "Always" ->
          <<"A", "l", "w", "a", "y", "s">>
      [] s = "-" ->
          <<"-">>
      [] s = "100" ->
          <<"1", "0", "0">>
      [] s = "050" ->
          <<"0", "5", "0">>
      [] s = "5" ->
          <<"5">>
      [] s = "196" ->
          <<"1", "9", "6">>
      [] s = "199" ->
          <<"1", "9", "9">>
      [] s = "240" ->
          <<"2", "4", "0">>
      [] s = "241" ->
          <<"2", "4", "1">>
      [] s = "168" ->
          <<"1", "6", "8">>
      [] s = "x" ->
          <<"x">>
      [] s = "0" ->
          <<"0">>
      [] s = "1" ->
          <<"1">>
      [] s = "7" ->
          <<"7">>
      [] s = "9" ->
          <<"9">>
      [] s = "abc" ->
          <<"a", "b", "c">>
      [] s = "Reallocated_Sector_Ct" ->
          <<"R", "e", "a", "l", "l", "o", "c", "a", "t", "e", "d", "_", "S", "e", "c", "t", "o", "r", "_", "C", "t">>
      [] s = "CRC_Error_Count" ->
          <<"C", "R", "C", "_", "E", "r", "r", "o", "r", "_", "C", "o", "u", "n", "t">>
      [] s = "Head_Flying_Hours" ->
          <<"H", "e", "a", "d", "_", "F", "l", "y", "i", "n", "g", "_", "H", "o", "u", "r", "s">>
      [] s = "Reallocated_Event_Count" ->
          <<"R", "e", "a", "l", "l", "o", "c", "a", "t", "e", "d", "_", "E", "v", "e", "n", "t", "_", "C", "o", "u", "n", "t">>
      [] s = "(Lifetime" ->
          <<"(", "L", "i", "f", "e", "t", "i", "m", "e">>
      [] s = "Min/Max" ->
          <<"M", "i", "n", "/", "M", "a", "x">>
      [] s = "30/60)" ->
          <<"3", "0", "/", "6", "0", ")">>
      [] s = "/dev/nvme0n1" ->
          <<"/", "d", "e", "v", "/", "n", "v", "m", "e", "0", "n", "1">>
      [] s = "/dev/nvme1n1" ->
          <<"/", "d", "e", "v", "/", "n", "v", "m", "e", "1", "n", "1">>
      [] s = "NVME" ->
          <<"N", "V", "M", "E">>
      [] s = "SAMSUNG" ->
          <<"S", "A", "M", "S", "U", "N", "G">>
      [] s = "Critical" ->
          <<"C", "r", "i", "t", "i", "c", "a", "l">>
      [] s = "Warning:" ->
          <<"W", "a", "r", "n", "i", "n", "g", ":">>
      [] s = "0x1f" ->
          <<"0", "x", "1", "f">>
      [] s = "zz" ->
          <<"z", "z">>
      [] s = "Temperature:" ->
          <<"T", "e", "m", "p", "e", "r", "a", "t", "u", "r", "e", ":">>
      [] s = "35" ->
          <<"3", "5">>
      [] s = "Celsius" ->
          <<"C", "e", "l", "s", "i", "u", "s">>
      [] s = "Available" ->
          <<"A", "v", "a", "i", "l", "a", "b", "l", "e">>
      [] s = "Spare:" ->
          <<"S", "p", "a", "r", "e", ":">>
      [] s = "100%" ->
          <<"1", "0", "0", "%">>
      [] s = "n/a" ->
          <<"n", "/", "a">>
      [] s = "Data" ->
          <<"D", "a", "t", "a">>
      [] s = "Units" ->
          <<"U", "n", "i", "t", "s">>
      [] s = "Read:" ->
          <<"R", "e", "a", "d", ":">>
      [] s = "Written:" ->
          <<"W", "r", "i", "t", "t", "e", "n", ":">>
      [] s = "1,0" ->
          <<"1", ",", "0">>
      [] s = "[5.12" ->
          <<"[", "5", ".", "1", "2">>
      [] s = "MB]" ->
          <<"M", "B", "]">>
      [] s = "[0" ->
          <<"[", "0">>
      [] s = "B]" ->
          <<"B", "]">>
      [] s = "SMART/Health" ->
          <<"S", "M", "A", "R", "T", "/", "H", "e", "a", "l", "t", "h">>
      [] s = "Information" ->
          <<"I", "n", "f", "o", "r", "m", "a", "t", "i", "o", "n">>
      [] s = "(NVMe" ->
          <<"(", "N", "V", "M", "e">>
      [] s = "Log)" ->
          <<"L", "o", "g", ")">>
      [] s = "Local" ->
          <<"L", "o", "c", "a", "l">>
      [] s = "Time" ->
          <<"T", "i", "m", "e">>
      [] s = "is:" ->
          <<"i", "s", ":">>
      [] s = "12:30" ->
          <<"1", "2", ":", "3", "0">>
      [] s = "SSD" ->
          <<"S", "S", "D">>
      [] s = "970" ->
          <<"9", "7", "0">>
      [] s = "EVO" ->
          <<"E", "V", "O">>
      [] s = "Plus" ->
          <<"P", "l", "u", "s">>

IsSpace(c) == c \in {" ", "\t"}

DecDigits == <<"0", "1", "2", "3", "4", "5", "6", "7", "8", "9">>
HexLower == DecDigits \o <<"a", "b", "c", "d", "e", "f">>
HexUpper == DecDigits \o <<"A", "B", "C", "D", "E", "F">>

IsDigitIn(c, base) ==
    \E i \in 1..base : HexLower[i] = c \/ HexUpper[i] = c

DigitVal(c) ==
    (CHOOSE i \in 1..16 : HexLower[i] = c \/ HexUpper[i] = c) - 1

RECURSIVE lstrip(_)
lstrip(s) ==
    IF s # <<>> /\ IsSpace(Head(s)) THEN lstrip(Tail(s)) ELSE s

RECURSIVE rstrip(_)
rstrip(s) ==
    IF s # <<>> /\ IsSpace(s[Len(s)]) THEN rstrip(SubSeq(s, 1, Len(s) - 1)) ELSE s

strip(s) == rstrip(lstrip(s))

\* str.replace(old, new) for a one-character old
RECURSIVE replace(_, _, _)
replace(s, old, new) ==
    IF s = <<>> THEN <<>>
    ELSE (IF Head(s) = old THEN new ELSE <<Head(s)>>) \o replace(Tail(s), old, new)

\* sub in s
contains(s, sub) ==
    \E i \in 1..(Len(s) - Len(sub) + 1) : SubSeq(s, i, i + Len(sub) - 1) = sub

\* sep.join(line)
RECURSIVE join(_, _)
join(sep, line) ==
    IF line = <<>> THEN <<>>
    ELSE IF Len(line) = 1 THEN line[1]
    ELSE line[1] \o sep \o join(sep, Tail(line))

\* str.split(sep) for a one-character sep: always at least one piece
RECURSIVE split(_, _)
split(s, sep) ==
    IF \A i \in 1..Len(s) : s[i] # sep THEN <<s>>
    ELSE LET i == CHOOSE j \in 1..Len(s) :
                      s[j] = sep /\ \A k \in 1..(j - 1) : s[k] # sep
         IN <<SubSeq(s, 1, i - 1)>> \o split(SubSeq(s, i + 1, Len(s)), sep)

\* str.split(): the runs of characters that are not whitespace
RECURSIVE split_whitespace(_)
split_whitespace(s) ==
    LET t == lstrip(s)
    IN IF t = <<>> THEN <<>>
       ELSE LET n == IF \E j \in 1..Len(t) : IsSpace(t[j])
                     THEN (CHOOSE j \in 1..Len(t) :
                              IsSpace(t[j]) /\ \A k \in 1..(j - 1) : ~IsSpace(t[k])) - 1
                     ELSE Len(t)
            IN <<SubSeq(t, 1, n)>> \o split_whitespace(SubSeq(t, n + 1, Len(t)))

\* the digits of an integer literal, single underscores allowed between
\* digits (and after a base prefix): <<n>>, or <<>> for ValueError
RECURSIVE int_digits(_, _, _, _)
int_digits(s, base, acc, underscore_ok) ==
    IF s = <<>> THEN <<acc>>
    ELSE IF Head(s) = "_"
         THEN IF underscore_ok /\ Len(s) > 1 /\ IsDigitIn(s[2], base)
              THEN int_digits(Tail(s), base, acc, FALSE)
              ELSE <<>>
         ELSE IF IsDigitIn(Head(s), base)
              THEN int_digits(Tail(s), base, acc * base + DigitVal(Head(s)), TRUE)
              ELSE <<>>

int_unsigned(s, base) ==
    IF base = 16 /\ Len(s) >= 2 /\ s[1] = "0" /\ s[2] \in {"x", "X"}
    THEN IF Len(s) = 2 THEN <<>> ELSE int_digits(SubSeq(s, 3, Len(s)), base, 0, TRUE)
    ELSE IF s = <<>> THEN <<>> ELSE int_digits(s, base, 0, FALSE)

\* int(value, base): <<n>>, or <<>> where Python raises ValueError
int(value, base) ==
    LET s == strip(value)
    IN IF s # <<>> /\ Head(s) \in {"+", "-"}
       THEN LET n == int_unsigned(Tail(s), base)
            IN IF n = <<>> THEN <<>>
               ELSE IF Head(s) = "-" THEN <<0 - n[1]>> ELSE n
       ELSE int_unsigned(s, base)

\* setting or adding a key, as disk[key] = value
setitem(disk, key, value) ==
    [k \in DOMAIN disk \cup {key} |-> IF k = key THEN value ELSE disk[k]]

setdefault_replace(mapping, key, default) ==
    setitem(mapping, key, default)

\* mapping.setdefault(key, default), the mapping afterwards
setdefault(mapping, key, default) ==
    IF key \in DOMAIN mapping THEN mapping ELSE setitem(mapping, key, default)

_set_int_or_skip(disk, key, value) ==
    IF int(value, 10) = <<>> THEN disk
    ELSE setitem(disk, key, int(value, 10)[1])

_set_int_or_zero(disk, key, value) ==
    IF int(value, 10) = <<>> THEN setitem(disk, key, 0)
    ELSE setitem(disk, key, int(value, 10)[1])

----------------------------------------------------------------------------
(* Parsing the raw agent section *)

CRC_ERRORS_ID == 199

DATA_UNIT_BYTES == 512000

UDMA_CRC_ERRORS == "UDMA_CRC_Errors"

\* the names the parser compares with and stores under, as Python strings
UNKNOWN_ATTRIBUTE == chars("Unknown_Attribute")
UDMA_CRC_ERROR_COUNT == chars("UDMA_CRC_Error_Count")
UDMA_CRC_ERRORS_name == chars(UDMA_CRC_ERRORS)
CRC_ERRORS_name == chars("CRC_Errors")
NORMALIZED_VALUE_key == chars(NORMALIZED_VALUE)
NORMALIZED_THRESHOLD_key == chars(NORMALIZED_THRESHOLD)

ATA_ID_TO_DISK_ATTRIBUTE ==
    (5 :> "Reallocated_Sectors" @@ 9 :> "Power_On_Hours" @@ 10 :> "Spin_Retries"
     @@ 12 :> "Power_Cycles" @@ 184 :> "End-to-End_Errors"
     @@ 187 :> "Uncorrectable_Errors" @@ 188 :> COMMAND_TIMEOUT_COUNTER
     @@ 194 :> TEMPERATURE @@ 196 :> REALLOCATED_EVENTS
     @@ 197 :> "Pending_Sectors" @@ 199 :> "CRC_Errors")

\* lookup_attribute.name as a Python string
name_of == [id \in DOMAIN ATA_ID_TO_DISK_ATTRIBUTE |-> chars(ATA_ID_TO_DISK_ATTRIBUTE[id])]

\* what a parser loop has built; exc names the exception that ended it
parsed_so_far(disks, e) == [disks |-> disks, exc |-> e]

is_udma_crc_any_name(id, attribute_name) ==
    id = CRC_ERRORS_ID

\* the code-199 line that carries the UDMA name
is_udma_crc(id, attribute_name) ==
    id = CRC_ERRORS_ID /\ attribute_name = UDMA_CRC_ERROR_COUNT

unmapped_discard(disk, attribute_name, raw_value) ==
    disk

unmapped_overwrite(disk, attribute_name, raw_value) ==
    _set_int_or_zero(disk, attribute_name, raw_value)

\* a line whose code is not in ATA_ID_TO_DISK_ATTRIBUTE
unmapped(disk, attribute_name, raw_value) ==
    IF attribute_name \in DOMAIN disk THEN disk
    ELSE _set_int_or_zero(disk, attribute_name, raw_value)

mapped_first_wins(disk, name, raw_value) ==
    IF name \in DOMAIN disk THEN disk ELSE _set_int_or_zero(disk, name, raw_value)

\* a line whose code is in ATA_ID_TO_DISK_ATTRIBUTE: stored under the canonical name
mapped(disk, name, raw_value) ==
    _set_int_or_zero(disk, name, raw_value)

\* the normalized pair of Reallocated_Events: the try block stops at the
\* first conversion that fails and keeps what was assigned before it
normalized_pair(disk, value, threshold) ==
    IF int(value, 10) = <<>> THEN disk
    ELSE LET d == setitem(disk, NORMALIZED_VALUE_key, int(value, 10)[1])
         IN IF int(threshold, 10) = <<>> THEN d
            ELSE setitem(d, NORMALIZED_THRESHOLD_key, int(threshold, 10)[1])

\* one iteration of the loop over the tabular lines
_parse_ata_line(ata_disks, line) ==
    LET disk_path == line[1]
        ID == line[4]
        attribute_name == line[5]
        value == line[7]
        threshold == line[9]
        raw_value == line[13]
        created == setdefault(ata_disks, disk_path, <<>>)
        disk == created[disk_path]
        id == int(ID, 10)
        with(d) == parsed_so_far([created EXCEPT ![disk_path] = d], "")
    IN IF attribute_name = UNKNOWN_ATTRIBUTE THEN with(disk)
       ELSE IF id = <<>> THEN parsed_so_far(created, "ValueError")
       ELSE IF is_udma_crc(id[1], attribute_name)
            THEN with(_set_int_or_zero(disk, UDMA_CRC_ERRORS_name, raw_value))
       ELSE IF id[1] \notin DOMAIN ATA_ID_TO_DISK_ATTRIBUTE
            THEN with(unmapped(disk, attribute_name, raw_value))
       ELSE LET lookup_attribute == ATA_ID_TO_DISK_ATTRIBUTE[id[1]]
                stored == mapped(disk, name_of[id[1]], raw_value)
            IN IF lookup_attribute = REALLOCATED_EVENTS
               THEN with(normalized_pair(stored, value, threshold))
               ELSE with(stored)

RECURSIVE _parse_ata_loop(_, _)
_parse_ata_loop(acc, ata_lines) ==
    IF ata_lines = <<>> \/ acc.exc # "" THEN acc
    ELSE _parse_ata_loop(_parse_ata_line(acc.disks, Head(ata_lines)), Tail(ata_lines))

_parse_ata_lines(ata_lines) ==
    _parse_ata_loop(parsed_so_far(<<>>, ""), ata_lines)

\* the key/value loop so far: bound is <<>> while the variable disk is
\* unbound, else <<path>> of the record it refers to
nvme_so_far(disks, bound, e) == [disks |-> disks, bound |-> bound, exc |-> e]

\* one iteration of the loop over the key/value lines
_parse_nvme_line(acc, line) ==
    IF contains(line[1], chars("/dev"))
    THEN nvme_so_far(setdefault(acc.disks, line[1], <<>>), <<line[1]>>, "")
    ELSE
    LET pieces == split(join(chars(" "), line), ":")
        raise(e) == [acc EXCEPT !.exc = e]
    IN IF Len(pieces) # 2 THEN raise("ValueError")
       ELSE
       LET field == strip(pieces[1])
           key == replace(field, " ", chars("_"))
           value == replace(replace(replace(strip(pieces[2]), "%", <<>>), ".", <<>>),
                            ",", <<>>)
           words == split_whitespace(value)
           disk == acc.disks[acc.bound[1]]
           with(d) == [acc EXCEPT !.disks[acc.bound[1]] = d]
       IN IF field = chars("Temperature")
          THEN IF acc.bound = <<>> THEN raise("UnboundLocalError")
               ELSE IF words = <<>> THEN raise("IndexError")
               ELSE with(_set_int_or_zero(disk, key, words[1]))
          ELSE IF field = chars("Critical Warning")
          THEN IF int(value, 16) = <<>> THEN raise("ValueError")
               ELSE IF acc.bound = <<>> THEN raise("UnboundLocalError")
               ELSE with(setitem(disk, key, int(value, 16)[1]))
          ELSE IF field \in {chars("Data Units Read"), chars("Data Units Written")}
          THEN IF words = <<>> THEN raise("IndexError")
               ELSE IF int(words[1], 10) = <<>> THEN raise("ValueError")
               ELSE IF acc.bound = <<>> THEN raise("UnboundLocalError")
               ELSE with(setitem(disk, key, int(words[1], 10)[1] * DATA_UNIT_BYTES))
          ELSE IF acc.bound = <<>> THEN raise("UnboundLocalError")
               ELSE with(_set_int_or_zero(disk, key, value))

RECURSIVE _parse_nvme_loop(_, _)
_parse_nvme_loop(acc, nvme_lines) ==
    IF nvme_lines = <<>> \/ acc.exc # "" THEN acc
    ELSE _parse_nvme_loop(_parse_nvme_line(acc, Head(nvme_lines)), Tail(nvme_lines))

_parse_nvme_lines(nvme_lines) ==
    _parse_nvme_loop(nvme_so_far(<<>>, <<>>, ""), nvme_lines)

is_ata_line(line) == Len(line) >= 13
is_nvme_line_wide(line) == 3 <= Len(line) /\ Len(line) <= 12
is_nvme_line(line) == 3 <= Len(line) /\ Len(line) <= 6

merge_attributewise(ata, nvme) ==
    [d \in DOMAIN ata \cup DOMAIN nvme |->
        IF d \in DOMAIN ata /\ d \in DOMAIN nvme
        THEN [k \in DOMAIN ata[d] \cup DOMAIN nvme[d] |->
                 IF k \in DOMAIN nvme[d] THEN nvme[d][k] ELSE ata[d][k]]
        ELSE IF d \in DOMAIN nvme THEN nvme[d] ELSE ata[d]]

\* {**ata, **nvme}: a device of both keeps the key/value record
merge(ata, nvme) ==
    [d \in DOMAIN ata \cup DOMAIN nvme |-> IF d \in DOMAIN nvme THEN nvme[d] ELSE ata[d]]

parse_raw_values(string_table) ==
    LET ata == _parse_ata_lines(SelectSeq(string_table, is_ata_line))
        nvme == _parse_nvme_lines(SelectSeq(string_table, is_nvme_line))
    IN IF ata.exc # "" THEN parsed_so_far(<<>>, ata.exc)
       ELSE IF nvme.exc # "" THEN parsed_so_far(<<>>, nvme.exc)
       ELSE parsed_so_far(merge(ata.disks, nvme.disks), "")

----------------------------------------------------------------------------
(* Inputs *)

Values == 0..MaxVal

\* keys a reading is built from: a default capture-flagged attribute, the
\* rate-tracked one, the one left to the temperature check, the cross-checked
\* one, the inverted one, a default attribute that is not captured, and the
\* keys that are not registry attributes
AttrKeys == {"Reallocated_Sectors", COMMAND_TIMEOUT_COUNTER, TEMPERATURE,
             REALLOCATED_EVENTS, AVAILABLE_SPARE, "Percentage_Used",
             AVAILABLE_SPARE_THRESHOLD, NORMALIZED_VALUE, NORMALIZED_THRESHOLD}
ParamKeys == AttrKeys \cap RegistryNames

MapsUpTo(keys, n, vals) ==
    UNION {[S -> vals] : S \in {T \in SUBSET keys : Cardinality(T) <= n}}

Disks == MapsUpTo(AttrKeys, MaxAttrs, Values)

\* the empty baseline and the baselines of one attribute
ParamSets == {<<>>} \cup {[n \in {k} |-> v] : k \in ParamKeys, v \in Values}

Size(section) ==
    LET RECURSIVE sum(_)
        sum(D) == IF D = {} THEN 0
                  ELSE LET d == CHOOSE x \in D : TRUE
                       IN Cardinality(DOMAIN section[d]) + sum(D \ {d})
    IN sum(DOMAIN section)

\* sections of one device, as evaluated for the monitored item
ItemSections == {<<>>} \cup {[d \in {MonitoredItem} |-> disk] : disk \in Disks}

\* keys a discovered reading is built from: two capture-flagged attributes,
\* two registry attributes that are not captured, two keys outside the registry
DiscoveryKeys == {"Reallocated_Sectors", COMMAND_TIMEOUT_COUNTER, TEMPERATURE,
                  AVAILABLE_SPARE, AVAILABLE_SPARE_THRESHOLD, NORMALIZED_VALUE}

MapsOfSize(keys, n, vals) ==
    UNION {[S -> vals] : S \in {T \in SUBSET keys : Cardinality(T) = n}}

\* sections of up to two devices with at most n entries in all
Sections(n) ==
    {<<>>}
    \cup UNION {{[d \in {e} |-> disk] : disk \in MapsUpTo(DiscoveryKeys, n, Values)} :
                e \in Devices}
    \cup UNION {{[d \in Devices |-> IF d = MonitoredItem THEN x ELSE y] :
                    x \in MapsOfSize(DiscoveryKeys, i, Values),
                    y \in MapsUpTo(DiscoveryKeys, n - i, Values)} :
                i \in 0..n}

----------------------------------------------------------------------------
(* The host calls the plugin *)

NoEntry == [d \in Devices |-> <<>>]

Init ==
    /\ value_store = NoEntry
    /\ value_store_pre = NoEntry
    /\ clock = 0
    /\ op = "idle"
    /\ arg_item = ""
    /\ arg_params = <<>>
    /\ arg_section = <<>>
    /\ arg_now = 0
    /\ out = <<>>
    /\ exc = ""
    /\ services = <<>>
    /\ params_post = <<>>
    /\ section_post = <<>>
    /\ arg_string_table = <<>>
    /\ parsed = <<>>

\* the raw section is handed to the parse function
Parse(table) ==
    /\ op = "idle"
    /\ op' = "parse"
    /\ arg_string_table' = table
    /\ LET r == parse_raw_values(table)
       IN parsed' = r.disks /\ exc' = r.exc
    /\ UNCHANGED <<value_store, value_store_pre, clock, arg_item, arg_params,
                   arg_section, arg_now, out, services, params_post, section_post>>

Discover(section) ==
    /\ op = "idle"
    /\ op' = "discover"
    /\ arg_section' = section
    /\ services' = discover_smart_stats(section)
    /\ UNCHANGED <<value_store, value_store_pre, clock, arg_item, arg_params,
                   arg_now, out, exc, params_post, section_post, arg_string_table,
                   parsed>>

\* check_smart_stats is called with the value store of the item's service
Call(item, params, section, now) ==
    /\ now > clock
    /\ LET r == check_smart_stats(item, params, section, now,
                                  value_store[get_value_store(item)])
       IN /\ out' = r.out
          /\ exc' = r.exc
          /\ value_store' = [value_store EXCEPT ![get_value_store(item)] = r.entry]
    /\ params_post' = params_after_check(item, params, section)
    /\ section_post' = section_after_check(item, params, section)
    /\ value_store_pre' = value_store
    /\ clock' = now
    /\ op' = "check"
    /\ arg_item' = item
    /\ arg_params' = params
    /\ arg_section' = section
    /\ arg_now' = now
    /\ UNCHANGED <<services, arg_string_table, parsed>>

Check(item, params, section, now) ==
    /\ op = "idle"
    /\ Call(item, params, section, now)

\* the host has consumed what the call yielded
Consume ==
    /\ op # "idle"
    /\ op' = "idle"
    /\ arg_item' = ""
    /\ arg_params' = <<>>
    /\ arg_section' = <<>>
    /\ arg_now' = 0
    /\ out' = <<>>
    /\ exc' = ""
    /\ services' = <<>>
    /\ params_post' = <<>>
    /\ section_post' = <<>>
    /\ arg_string_table' = <<>>
    /\ parsed' = <<>>
    /\ value_store_pre' = value_store
    /\ UNCHANGED <<value_store, clock>>

DiscoverStep ==
    /\ op = "idle"
    /\ \E section \in Sections(MaxAttrs) : Discover(section)

\* the first evaluation of the monitored item, one second after the start
CheckStep ==
    /\ op = "idle"
    /\ clock = 0
    /\ \E params \in ParamSets, section \in ItemSections :
          Check(MonitoredItem, params, section, clock + 1)

\* one evaluation of any reading against any baseline
Next == CheckStep \/ Consume

Spec == Init /\ [][Next]_vars

\* discovery runs
NextDiscovery == DiscoverStep \/ Consume

SpecDiscovery == Init /\ [][NextDiscovery]_vars

\* evaluations of two devices whose readings carry the timeout counter
CounterValues == {0, 50, 100, 100000}
RateTimes == {1800, 3600, 5400, 7200}
RateDisks == {[n \in {COMMAND_TIMEOUT_COUNTER} |-> v] : v \in CounterValues}
RateParamSets == {<<>>} \cup {[n \in {COMMAND_TIMEOUT_COUNTER} |-> 0]}

RateCheckStep ==
    /\ op = "idle"
    /\ \E item \in Devices, params \in RateParamSets, disk \in RateDisks,
          now \in RateTimes :
          Check(item, params, [d \in {item} |-> disk], now)

NextRate == RateCheckStep \/ Consume

SpecRate == Init /\ [][NextRate]_vars

\* keys of a discovered reading that is evaluated afterwards: two captured
\* attributes under the default policy, one before and one after the
\* rate-tracked attribute in the registry, the rate-tracked attribute, the
\* spare value with its threshold, and a default attribute that is not captured
BaselineKeys == {"Reallocated_Sectors", COMMAND_TIMEOUT_COUNTER, "Pending_Sectors",
                 AVAILABLE_SPARE, AVAILABLE_SPARE_THRESHOLD, "Percentage_Used"}
BaselineDisks == MapsUpTo(BaselineKeys, MaxAttrs, Values)

\* discovery of one device
DiscoverBaselineStep ==
    /\ op = "idle"
    /\ clock = 0
    /\ \E disk \in BaselineDisks : Discover([d \in {MonitoredItem} |-> disk])

\* the first evaluation of a discovered service: the parameters are the ones
\* discovery yielded, the reading has the discovered attributes with any values
CheckDiscoveredStep ==
    /\ op = "discover"
    /\ \E k \in 1..Len(services) :
          \E disk \in [DOMAIN arg_section[services[k].item] -> Values] :
              Call(services[k].item, services[k].parameters,
                   [d \in {services[k].item} |-> disk], clock + 1)

NextBaseline == DiscoverBaselineStep \/ CheckDiscoveredStep \/ Consume

SpecBaseline == Init /\ [][NextBaseline]_vars

\* a tabular line of 13 columns, and one with raw-value annotations after it
AtaLine(disk_path, ID, attribute_name, value, threshold, raw_value) ==
    <<chars(disk_path), chars("ATA"), chars("WDC"), chars(ID), chars(attribute_name),
      chars("0x0012"), chars(value), chars("100"), chars(threshold),
      chars("Old_age"), chars("Always"), chars("-"), chars(raw_value)>>

\* tabular lines: a mapped code, the shared code 199 under three names,
\* an unmapped code and another unmapped code of the same name, the
\* placeholder name, the cross-checked code, a second device, a code that
\* is not a number; raw values that are and are not numbers
AtaLines == {
    AtaLine("/dev/sda", "5", "Reallocated_Sector_Ct", "100", "050", "7"),
    AtaLine("/dev/sda", "5", "Reallocated_Sector_Ct", "100", "050", "abc"),
    AtaLine("/dev/sda", "199", "UDMA_CRC_Error_Count", "100", "050", "1"),
    AtaLine("/dev/sda", "199", "UDMA_CRC_Error_Count", "100", "050", "abc"),
    AtaLine("/dev/sda", "199", "CRC_Error_Count", "100", "050", "9"),
    AtaLine("/dev/sda", "199", "CRC_Error_Count", "100", "050", "abc"),
    AtaLine("/dev/sda", "199", "Unknown_Attribute", "100", "050", "7"),
    AtaLine("/dev/sda", "240", "Head_Flying_Hours", "100", "050", "7"),
    AtaLine("/dev/sda", "241", "Head_Flying_Hours", "100", "050", "9"),
    AtaLine("/dev/sda", "240", "Head_Flying_Hours", "100", "050", "abc"),
    AtaLine("/dev/sda", "240", "Reallocated_Sectors", "100", "050", "1"),
    AtaLine("/dev/sda", "196", "Reallocated_Event_Count", "100", "050", "1"),
    AtaLine("/dev/sda", "196", "Reallocated_Event_Count", "100", "-", "abc"),
    AtaLine("/dev/sdb", "5", "Reallocated_Sector_Ct", "100", "050", "1"),
    AtaLine("/dev/sdb", "168", "Unknown_Attribute", "100", "050", "1"),
    AtaLine("/dev/sda", "x", "Reallocated_Sector_Ct", "100", "050", "7")
        \o <<chars("(Lifetime"), chars("Min/Max"), chars("30/60)")>>
}

\* the raw sections of up to n lines
Tables(lines, n) == UNION {[1..k -> lines] : k \in 0..n}

ParseAtaStep ==
    /\ op = "idle"
    /\ \E table \in Tables(AtaLines, MaxLines) : Parse(table)

\* parse runs over tabular lines
NextAta == ParseAtaStep \/ Consume

SpecAta == Init /\ [][NextAta]_vars

\* a line of the key/value dialect, as the agent section is tokenized
Tokens(line) == [i \in 1..Len(line) |-> chars(line[i])]

\* key/value lines: two device lines, readings of every branch of the
\* match with values that are and are not numbers, a line without a colon,
\* a line with two colons, a reading whose value is empty after cleaning
NvmeLines == {
    Tokens(<<"/dev/nvme0n1", "NVME", "SAMSUNG">>),
    Tokens(<<"/dev/nvme1n1", "NVME", "SAMSUNG">>),
    Tokens(<<"Critical", "Warning:", "0x1f">>),
    Tokens(<<"Critical", "Warning:", "zz">>),
    Tokens(<<"Temperature:", "35", "Celsius">>),
    Tokens(<<"Temperature:", "%", ".">>),
    Tokens(<<"Available", "Spare:", "100%">>),
    Tokens(<<"Available", "Spare:", "n/a">>),
    Tokens(<<"Data", "Units", "Read:", "1,0", "[5.12", "MB]">>),
    Tokens(<<"Data", "Units", "Written:", "-", "[0", "B]">>),
    Tokens(<<"SMART/Health", "Information", "(NVMe", "Log)">>),
    Tokens(<<"Local", "Time", "is:", "12:30">>)
}

\* a device line and the readings after it make one line more than a tabular section
ParseNvmeStep ==
    /\ op = "idle"
    /\ \E table \in Tables(NvmeLines, MaxLines + 1) : Parse(table)

\* parse runs over key/value lines
NextNvme == ParseNvmeStep \/ Consume

SpecNvme == Init /\ [][NextNvme]_vars

\* two device lines and three readings that parse, for the grouping of
\* readings under device lines
GroupLines == {
    Tokens(<<"/dev/nvme0n1", "NVME", "SAMSUNG">>),
    Tokens(<<"/dev/nvme1n1", "NVME", "SAMSUNG">>),
    Tokens(<<"Critical", "Warning:", "0x1f">>),
    Tokens(<<"Temperature:", "35", "Celsius">>),
    Tokens(<<"Available", "Spare:", "100%">>)
}

\* two groups of a device line and a reading make two lines more
ParseGroupsStep ==
    /\ op = "idle"
    /\ \E table \in Tables(GroupLines, MaxLines + 2) : Parse(table)

\* parse runs over groups of key/value lines
NextGroups == ParseGroupsStep \/ Consume

SpecGroups == Init /\ [][NextGroups]_vars

\* lines of both dialects and of neither: tabular lines of a disk and of
\* the device the key/value lines name, a device line and two readings, and
\* lines of 0, 2, 7 and 12 fields that look like a reading, a device line
\* and a tabular line
MixedLines == {
    AtaLine("/dev/sda", "5", "Reallocated_Sector_Ct", "100", "050", "7"),
    AtaLine("/dev/nvme0n1", "5", "Reallocated_Sector_Ct", "100", "050", "7"),
    Tokens(<<"/dev/nvme0n1", "NVME", "SAMSUNG">>),
    Tokens(<<"Available", "Spare:", "100%">>),
    Tokens(<<"Critical", "Warning:", "0x1f">>),
    <<>>,
    Tokens(<<"Temperature:", "35">>),
    Tokens(<<"/dev/nvme1n1", "NVME", "SAMSUNG", "SSD", "970", "EVO", "Plus">>),
    SubSeq(AtaLine("/dev/sdb", "5", "Reallocated_Sector_Ct", "100", "050", "7"), 1, 12)
}

ParseMixedStep ==
    /\ op = "idle"
    /\ \E table \in Tables(MixedLines, MaxLines + 1) : Parse(table)

\* parse runs over raw sections of both dialects
NextMixed == ParseMixedStep \/ Consume

SpecMixed == Init /\ [][NextMixed]_vars

----------------------------------------------------------------------------
(* Reading the pending call *)

Evaluated == op = "check" /\ arg_item \in DOMAIN arg_section
Reading == arg_section[arg_item]

ResultsFor(name) ==
    {i \in 1..Len(out) : out[i].kind = "Result" /\ out[i].name = name}
MetricsFor(name) ==
    {i \in 1..Len(out) : out[i].kind = "Metric" /\ out[i].name = name}
Verdicts(name) == {out[i].state : i \in ResultsFor(name)}
Reported(name) == ResultsFor(name) # {} /\ MetricsFor(name) # {}

\* the verdicts a call of check_smart_stats yields for one attribute
VerdictsIn(r, name) ==
    {r.out[i].state :
        i \in {j \in 1..Len(r.out) : r.out[j].kind = "Result" /\ r.out[j].name = name}}

FlaggedPresent(disk) ==
    {n \in DOMAIN disk : \E i \in 1..Len(DiskAttribute) :
        DiskAttribute[i].name = n /\ DiskAttribute[i].capture_on_discovery}
ServicesOf(d) == {k \in 1..Len(services) : services[k].item = d}

----------------------------------------------------------------------------
(* C1: discovery emits a service for a device iff a capture-flagged attribute
   is present in its reading; the item is the device, the parameters are
   exactly the flagged attributes present with their current values, and no
   device gets more than one service. *)
C1_DiscoveryBaseline ==
    op = "discover" =>
        /\ \A k \in 1..Len(services) : services[k].item \in DOMAIN arg_section
        /\ \A d \in DOMAIN arg_section :
              /\ (ServicesOf(d) # {}) <=> (FlaggedPresent(arg_section[d]) # {})
              /\ Cardinality(ServicesOf(d)) <= 1
              /\ \A k \in ServicesOf(d) :
                    /\ DOMAIN services[k].parameters = FlaggedPresent(arg_section[d])
                    /\ \A n \in DOMAIN services[k].parameters :
                          services[k].parameters[n] = arg_section[d][n]

\* a device with flagged and other keys gets a service, a second device
\* with only unflagged keys gets none
C1_Witness ==
    /\ op = "discover"
    /\ \E d \in DOMAIN arg_section, e \in DOMAIN arg_section :
          /\ d # e
          /\ ServicesOf(d) # {}
          /\ DOMAIN arg_section[d] \ FlaggedPresent(arg_section[d]) # {}
          /\ DOMAIN arg_section[e] # {}
          /\ ServicesOf(e) = {}

(* C2: Reallocated_Events with a baseline value and both normalized keys:
   the verdict is critical iff normalized value <= normalized threshold. *)
C2_NormalizedDecides ==
    (/\ Evaluated
     /\ {REALLOCATED_EVENTS, NORMALIZED_VALUE, NORMALIZED_THRESHOLD} \subseteq DOMAIN Reading
     /\ REALLOCATED_EVENTS \in DOMAIN arg_params)
    => \A v \in Verdicts(REALLOCATED_EVENTS) :
          (v = CRIT) <=> (Reading[NORMALIZED_VALUE] <= Reading[NORMALIZED_THRESHOLD])

(* C3 as stated: Reallocated_Events with a baseline value but without the
   normalized pair is critical iff the raw value exceeds the baseline. *)
C3_FallsBackToDefault ==
    (/\ Evaluated
     /\ REALLOCATED_EVENTS \in DOMAIN Reading
     /\ REALLOCATED_EVENTS \in DOMAIN arg_params
     /\ ~ ({NORMALIZED_VALUE, NORMALIZED_THRESHOLD} \subseteq DOMAIN Reading))
    => \A v \in Verdicts(REALLOCATED_EVENTS) :
          (v = CRIT) <=> (Reading[REALLOCATED_EVENTS] > arg_params[REALLOCATED_EVENTS])

(* C3 amended: Reallocated_Events with a baseline value and a normalized key
   missing is reported normal, without hints, with the raw value as metric,
   whatever the raw value and the baseline are. *)
C3_MissingPairIsNormal ==
    (/\ Evaluated
     /\ REALLOCATED_EVENTS \in DOMAIN Reading
     /\ REALLOCATED_EVENTS \in DOMAIN arg_params
     /\ ~ ({NORMALIZED_VALUE, NORMALIZED_THRESHOLD} \subseteq DOMAIN Reading))
    => /\ \A i \in ResultsFor(REALLOCATED_EVENTS) :
             out[i].state = OK /\ out[i].hints = <<>>
       /\ \A i \in MetricsFor(REALLOCATED_EVENTS) :
             out[i].value = Reading[REALLOCATED_EVENTS]
       /\ exc = "" => Reported(REALLOCATED_EVENTS)

\* the raw value is above the baseline, one normalized key is there, and the
\* verdict is normal
C3_Witness ==
    /\ Evaluated
    /\ REALLOCATED_EVENTS \in DOMAIN Reading
    /\ REALLOCATED_EVENTS \in DOMAIN arg_params
    /\ NORMALIZED_VALUE \in DOMAIN Reading
    /\ NORMALIZED_THRESHOLD \notin DOMAIN Reading
    /\ Reading[REALLOCATED_EVENTS] > arg_params[REALLOCATED_EVENTS]
    /\ Verdicts(REALLOCATED_EVENTS) = {OK}

(* C4: once the rate state holds an earlier observation, the verdict of
   Command_Timeout_Counter is the same whether the baseline holds a value
   for it or not, and whatever that value is. *)
C4_VerdictIgnoresBaseline ==
    (/\ Evaluated
     /\ COMMAND_TIMEOUT_COUNTER \in DOMAIN Reading
     /\ value_store_pre[arg_item] # <<>>
     /\ arg_now > value_store_pre[arg_item][1]
     /\ Reading[COMMAND_TIMEOUT_COUNTER] >= value_store_pre[arg_item][2])
    => \A p \in RateParamSets :
          VerdictsIn(check_smart_stats(arg_item, p, arg_section, arg_now,
                                       value_store_pre[arg_item]),
                     COMMAND_TIMEOUT_COUNTER)
          = Verdicts(COMMAND_TIMEOUT_COUNTER)

(* C5: after an evaluation whose reading contains Command_Timeout_Counter
   the rate state holds that evaluation's (timestamp, raw value). *)
C5_ObservationStored ==
    (Evaluated /\ COMMAND_TIMEOUT_COUNTER \in DOMAIN Reading)
    => value_store[arg_item] = <<arg_now, Reading[COMMAND_TIMEOUT_COUNTER]>>

\* the rate of the pending evaluation is Increase / Elapsed
HasRate ==
    /\ Evaluated
    /\ COMMAND_TIMEOUT_COUNTER \in DOMAIN Reading
    /\ COMMAND_TIMEOUT_COUNTER \in DOMAIN arg_params
    /\ value_store_pre[arg_item] # <<>>
    /\ arg_now > value_store_pre[arg_item][1]
    /\ Reading[COMMAND_TIMEOUT_COUNTER] >= value_store_pre[arg_item][2]
Increase == Reading[COMMAND_TIMEOUT_COUNTER] - value_store_pre[arg_item][2]
Elapsed == arg_now - value_store_pre[arg_item][1]

(* C6 as stated: Command_Timeout_Counter is critical iff the rate strictly
   exceeds 100 counts per hour, a rate equal to the ceiling being normal. *)
C6_CriticalIffAbove ==
    HasRate => \A v \in Verdicts(COMMAND_TIMEOUT_COUNTER) :
                  (v = CRIT) <=> (Increase * 3600 > 100 * Elapsed)

(* C6 amended: Command_Timeout_Counter is critical iff the rate is at least
   100 counts per hour (normal iff it is below), so a rate equal to the
   ceiling is critical; 0 then 50 over 3600 s is normal and 0 then 100000
   over 3600 s is critical. *)
C6_CriticalIffAtLeast ==
    HasRate =>
        /\ Verdicts(COMMAND_TIMEOUT_COUNTER) # {}
        /\ \A v \in Verdicts(COMMAND_TIMEOUT_COUNTER) :
              (v = CRIT) <=> (Increase * 3600 >= 100 * Elapsed)
        /\ (Elapsed = 3600 /\ value_store_pre[arg_item][2] = 0) =>
              /\ Reading[COMMAND_TIMEOUT_COUNTER] = 50 =>
                    Verdicts(COMMAND_TIMEOUT_COUNTER) = {OK}
              /\ Reading[COMMAND_TIMEOUT_COUNTER] = 100000 =>
                    Verdicts(COMMAND_TIMEOUT_COUNTER) = {CRIT}

\* 100 counts in 3600 s: the rate equals the ceiling and the verdict is critical
C6_Witness ==
    /\ HasRate
    /\ Elapsed = 3600
    /\ Increase = 100
    /\ Verdicts(COMMAND_TIMEOUT_COUNTER) = {CRIT}

\* the reference value of an attribute is unavailable
NoReference(name) ==
    IF name = AVAILABLE_SPARE
    THEN AVAILABLE_SPARE_THRESHOLD \notin DOMAIN Reading
    ELSE name \notin DOMAIN arg_params

(* C7: an attribute whose reference value is unavailable is reported normal
   with a metric, and the evaluation does not fail for the missing data. *)
C7_MissingReferenceIsNormal ==
    (Evaluated /\ exc # "GetRateError") =>
        /\ exc = ""
        /\ \A name \in (RegistryNames \ {TEMPERATURE}) \cap DOMAIN Reading :
              NoReference(name) => Verdicts(name) = {OK} /\ Reported(name)

(* C8: a registry attribute other than Command_Timeout_Counter and
   Available_Spare that is present and has no baseline value gets verdict
   normal and a metric equal to the raw value. *)
C8_NoBaselineIsNormal ==
    Evaluated =>
        \A name \in (RegistryNames \ {COMMAND_TIMEOUT_COUNTER, AVAILABLE_SPARE})
                    \cap DOMAIN Reading :
            name \notin DOMAIN arg_params =>
                /\ \A i \in ResultsFor(name) : out[i].state = OK
                /\ \A i \in MetricsFor(name) : out[i].value = Reading[name]
                /\ (exc = "" /\ name # TEMPERATURE) => Reported(name)

\* a present attribute with a non-zero value and no baseline is reported normal
C8_Witness ==
    /\ Evaluated
    /\ exc = ""
    /\ \E name \in (RegistryNames \ {COMMAND_TIMEOUT_COUNTER, AVAILABLE_SPARE,
                                    REALLOCATED_EVENTS}) \cap DOMAIN Reading :
          /\ name \notin DOMAIN arg_params
          /\ Reading[name] > 0
          /\ Verdicts(name) = {OK}
    /\ REALLOCATED_EVENTS \in DOMAIN Reading
    /\ REALLOCATED_EVENTS \notin DOMAIN arg_params
    /\ Verdicts(REALLOCATED_EVENTS) = {OK}

(* C9: an attribute under the default policy that is present and has a
   baseline value is critical iff the current value exceeds the baseline. *)
C9_DefaultComparison ==
    Evaluated =>
        \A name \in (RegistryNames \ {AVAILABLE_SPARE, REALLOCATED_EVENTS,
                                     COMMAND_TIMEOUT_COUNTER}) \cap DOMAIN Reading :
            name \in DOMAIN arg_params =>
                /\ \A v \in Verdicts(name) :
                      (v = CRIT) <=> (Reading[name] > arg_params[name])
                /\ (exc = "" /\ name # TEMPERATURE) => Reported(name)

\* a value equal to its baseline is reported normal
C9_Witness ==
    /\ Evaluated
    /\ \E name \in (RegistryNames \ {AVAILABLE_SPARE, REALLOCATED_EVENTS,
                                    COMMAND_TIMEOUT_COUNTER}) \cap DOMAIN Reading :
          /\ name \in DOMAIN arg_params
          /\ Reading[name] = arg_params[name]
          /\ Verdicts(name) = {OK}

(* C10: Available_Spare is critical iff its current value is below the
   Available_Spare_Threshold of the same reading, whatever the baseline
   holds for Available_Spare. *)
C10_SpareAgainstThreshold ==
    (Evaluated /\ AVAILABLE_SPARE \in DOMAIN Reading) =>
        /\ Verdicts(AVAILABLE_SPARE) # {} =>
              AVAILABLE_SPARE_THRESHOLD \in DOMAIN Reading
        /\ \A v \in Verdicts(AVAILABLE_SPARE) :
              (v = CRIT) <=>
              (Reading[AVAILABLE_SPARE] < Reading[AVAILABLE_SPARE_THRESHOLD])
        /\ (exc = "" /\ AVAILABLE_SPARE_THRESHOLD \in DOMAIN Reading) =>
              Reported(AVAILABLE_SPARE)

\* the spare value is below the threshold but not below its baseline value,
\* and the verdict is critical
C10_Witness ==
    /\ Evaluated
    /\ {AVAILABLE_SPARE, AVAILABLE_SPARE_THRESHOLD} \subseteq DOMAIN Reading
    /\ AVAILABLE_SPARE \in DOMAIN arg_params
    /\ Reading[AVAILABLE_SPARE] < Reading[AVAILABLE_SPARE_THRESHOLD]
    /\ Reading[AVAILABLE_SPARE] >= arg_params[AVAILABLE_SPARE]
    /\ Verdicts(AVAILABLE_SPARE) = {CRIT}

----------------------------------------------------------------------------
\* the registry attributes a reading is reported for, in registry order
RECURSIVE ReportedNames(_, _)
ReportedNames(i, disk) ==
    IF i > Len(DiskAttribute) THEN <<>>
    ELSE IF DiskAttribute[i].name # TEMPERATURE /\ DiskAttribute[i].name \in DOMAIN disk
         THEN <<DiskAttribute[i].name>> \o ReportedNames(i + 1, disk)
         ELSE ReportedNames(i + 1, disk)

(* C11: unless the rate state fails, the evaluation yields, in registry
   order, one Result (normal or critical) directly followed by one Metric
   with the canonical name and the raw value for every registry attribute
   other than Temperature that is present, and nothing else. *)
C11_OutputSet ==
    (Evaluated /\ exc # "GetRateError") =>
        LET names == ReportedNames(1, Reading)
        IN /\ Len(out) = 2 * Len(names)
           /\ \A j \in 1..Len(names) :
                 /\ out[2 * j - 1].kind = "Result"
                 /\ out[2 * j - 1].name = names[j]
                 /\ out[2 * j - 1].state \in {OK, CRIT}
                 /\ out[2 * j].kind = "Metric"
                 /\ out[2 * j].name = names[j]
                 /\ out[2 * j].value = Reading[names[j]]

\* get_rate is called by the pending evaluation and fails
RateFails ==
    /\ Evaluated
    /\ COMMAND_TIMEOUT_COUNTER \in DOMAIN Reading
    /\ COMMAND_TIMEOUT_COUNTER \in DOMAIN arg_params
    /\ get_rate(value_store_pre[arg_item], arg_now,
                Reading[COMMAND_TIMEOUT_COUNTER]).raised

(* C12: when get_rate fails, the failure leaves check_smart_stats: neither
   a Result nor a Metric is yielded for Command_Timeout_Counter, and nothing
   is yielded after the failure. *)
C12_RateFailurePropagates ==
    RateFails =>
        /\ exc = "GetRateError"
        /\ ResultsFor(COMMAND_TIMEOUT_COUNTER) = {}
        /\ MetricsFor(COMMAND_TIMEOUT_COUNTER) = {}
        /\ \A i \in 1..Len(out) :
              \E j, k \in 1..Len(DiskAttribute) :
                  /\ DiskAttribute[j].name = out[i].name
                  /\ DiskAttribute[k].name = COMMAND_TIMEOUT_COUNTER
                  /\ j < k

\* the first observation fails after an earlier attribute was reported
C12_Witness ==
    /\ RateFails
    /\ value_store_pre[arg_item] = <<>>
    /\ out # <<>>
    /\ exc = "GetRateError"

(* C13: when the observed Command_Timeout_Counter is smaller than the
   stored one, the stored observation becomes the new one and the verdict
   of that evaluation is not critical. *)
C13_ResetStartsFreshBaseline ==
    (/\ Evaluated
     /\ COMMAND_TIMEOUT_COUNTER \in DOMAIN Reading
     /\ value_store_pre[arg_item] # <<>>
     /\ Reading[COMMAND_TIMEOUT_COUNTER] < value_store_pre[arg_item][2])
    => /\ value_store[arg_item] = <<arg_now, Reading[COMMAND_TIMEOUT_COUNTER]>>
       /\ CRIT \notin Verdicts(COMMAND_TIMEOUT_COUNTER)

(* C14: an evaluation of one device leaves the rate state of every other
   device alone, writes only its own observation under its own device, and
   computes its rate against the entry of its own device. *)
C14_RateStateIsolated ==
    [][(op' = "check" /\ arg_item' \in DOMAIN arg_section') =>
          /\ \A d \in Devices \ {arg_item'} : value_store'[d] = value_store[d]
          /\ value_store'[arg_item'] # value_store[arg_item'] =>
                value_store'[arg_item'] =
                    <<arg_now', arg_section'[arg_item'][COMMAND_TIMEOUT_COUNTER]>>
          /\ \A i \in 1..Len(out') :
                (/\ out'[i].kind = "Result"
                 /\ out'[i].name = COMMAND_TIMEOUT_COUNTER
                 /\ COMMAND_TIMEOUT_COUNTER \in DOMAIN arg_params') =>
                    /\ value_store[arg_item'] # <<>>
                    /\ (out'[i].state = CRIT) <=>
                       ((arg_section'[arg_item'][COMMAND_TIMEOUT_COUNTER]
                            - value_store[arg_item'][2]) * 3600
                        >= 100 * (arg_now' - value_store[arg_item'][1]))
      ]_vars

\* the other device was evaluated after this device's previous evaluation,
\* and the rate of this one is still taken against its own previous one
C14_Witness ==
    /\ HasRate
    /\ \E d \in Devices \ {arg_item} :
          /\ value_store_pre[d] # <<>>
          /\ value_store_pre[d][1] > value_store_pre[arg_item][1]
          /\ value_store_pre[d][2] # value_store_pre[arg_item][2]
          /\ value_store[d] = value_store_pre[d]
    /\ Verdicts(COMMAND_TIMEOUT_COUNTER) # {}

(* C15: an evaluation leaves the baseline parameter set and the parsed
   section it was handed unchanged. *)
C15_InputsUnchanged ==
    op = "check" => params_post = arg_params /\ section_post = arg_section

\* a critical verdict against a baseline that lacks an attribute of the reading
C15_Witness ==
    /\ Evaluated
    /\ arg_params # <<>>
    /\ (RegistryNames \cap DOMAIN Reading) \ DOMAIN arg_params # {}
    /\ \E i \in 1..Len(out) : out[i].kind = "Result" /\ out[i].state = CRIT
    /\ params_post = arg_params

----------------------------------------------------------------------------
(* Reading the pending parse: the effect of each tabular line *)

Parsing == op = "parse"

\* the tabular lines of the raw section
TabularLines == SelectSeq(arg_string_table, is_ata_line)

\* what the tabular loop holds before its first line and after each line
RECURSIVE AtaTrace(_, _)
AtaTrace(acc, lines) ==
    IF lines = <<>> THEN <<acc>>
    ELSE <<acc>> \o AtaTrace(_parse_ata_loop(acc, <<Head(lines)>>), Tail(lines))

\* each tabular line with the loop's mapping just before and just after it
Steps ==
    LET lines == TabularLines
        trace == AtaTrace(parsed_so_far(<<>>, ""), lines)
    IN [k \in 1..Len(lines) |-> [line |-> lines[k], pre |-> trace[k], post |-> trace[k + 1]]]

DiskOf(disks, disk_path) ==
    IF disk_path \in DOMAIN disks THEN disks[disk_path] ELSE <<>>

\* the record of the line's device just before and just after the line
DiskBefore(st) == DiskOf(st.pre.disks, st.line[1])
DiskAfter(st) == DiskOf(st.post.disks, st.line[1])

\* the loop reaches the line
Reached(st) == st.pre.exc = ""

DeviceOf(st) == st.line[1]
CodeOf(st) == int(st.line[4], 10)
NameOf(st) == st.line[5]
RawOf(st) == st.line[13]

\* the integer a raw value stands for, 0 if it is not a number
IntOrZero(value) == IF int(value, 10) = <<>> THEN 0 ELSE int(value, 10)[1]

Placeholder(st) == NameOf(st) = UNKNOWN_ATTRIBUTE
Code199(st) == Reached(st) /\ CodeOf(st) = <<CRC_ERRORS_ID>>
Mapped(st) ==
    Reached(st) /\ CodeOf(st) # <<>> /\ CodeOf(st)[1] \in DOMAIN ATA_ID_TO_DISK_ATTRIBUTE
Unmapped(st) ==
    Reached(st) /\ CodeOf(st) # <<>> /\ CodeOf(st)[1] \notin DOMAIN ATA_ID_TO_DISK_ATTRIBUTE

\* the line is stored: a mapped code (code 199 under either name included)
\* or the first unmapped line of its name
Stored(st) ==
    /\ ~Placeholder(st)
    /\ Mapped(st) \/ (Unmapped(st) /\ NameOf(st) \notin DOMAIN DiskBefore(st))

KeyOf(st) ==
    IF Unmapped(st) THEN NameOf(st)
    ELSE IF CodeOf(st)[1] = CRC_ERRORS_ID /\ NameOf(st) = UDMA_CRC_ERROR_COUNT
         THEN UDMA_CRC_ERRORS_name
         ELSE name_of[CodeOf(st)[1]]

PrivateKeys == {NORMALIZED_VALUE_key, NORMALIZED_THRESHOLD_key}
CanonicalKeys == {chars(DiskAttribute[i].name) : i \in 1..Len(DiskAttribute)}

\* key is in the record before the line exactly if it is after it, with the same value
Untouched(st, key) ==
    /\ key \in DOMAIN DiskBefore(st) <=> key \in DOMAIN DiskAfter(st)
    /\ key \in DOMAIN DiskBefore(st) => DiskAfter(st)[key] = DiskBefore(st)[key]

\* the other devices' records are as before the line
OthersUntouched(st) ==
    \A d \in DOMAIN st.pre.disks \ {DeviceOf(st)} :
        d \in DOMAIN st.post.disks /\ st.post.disks[d] = st.pre.disks[d]

\* the parse returned the tabular loop's mapping of the whole raw section
ReturnedTabular ==
    /\ Parsing
    /\ exc = ""
    /\ TabularLines = arg_string_table
    /\ parsed = _parse_ata_lines(arg_string_table).disks

(* C16: parse_raw_values raises for no raw section: it returns a section,
   and the section holds every device named by a device line or a tabular
   line of the raw section. *)
C16_ParseNeverRaises ==
    Parsing =>
        /\ exc = ""
        /\ \A k \in 1..Len(arg_string_table) :
              (\/ is_ata_line(arg_string_table[k])
               \/ (/\ is_nvme_line(arg_string_table[k])
                   /\ contains(arg_string_table[k][1], chars("/dev"))))
              => arg_string_table[k][1] \in DOMAIN parsed

(* C17: a stored tabular line whose raw value is not a number raises
   nothing: its attribute is present with value 0 and every other attribute
   of the device, and every other device, is as before the line. *)
C17_NonNumericRawIsZero ==
    Parsing =>
        LET steps == Steps IN
        \A k \in DOMAIN steps :
            LET st == steps[k]
            IN (Reached(st) /\ Stored(st) /\ int(RawOf(st), 10) = <<>>) =>
                /\ st.post.exc = ""
                /\ KeyOf(st) \in DOMAIN DiskAfter(st)
                /\ DiskAfter(st)[KeyOf(st)] = 0
                /\ \A key \in DOMAIN DiskBefore(st) \ ({KeyOf(st)} \cup PrivateKeys) :
                      Untouched(st, key)
                /\ OthersUntouched(st)
                /\ (k = Len(arg_string_table)) =>
                      /\ exc = ""
                      /\ parsed[DeviceOf(st)][KeyOf(st)] = 0

\* the last line is stored as 0 beside a sibling that keeps its nonzero value
C17_Witness ==
    /\ ReturnedTabular
    /\ Len(arg_string_table) >= 2
    /\ LET st == Steps[Len(arg_string_table)]
       IN /\ Stored(st)
          /\ int(RawOf(st), 10) = <<>>
          /\ parsed[DeviceOf(st)][KeyOf(st)] = 0
          /\ \E key \in DOMAIN DiskBefore(st) \ {KeyOf(st)} :
                parsed[DeviceOf(st)][key] # 0

\* a code-199 line named UDMA_CRC_Error_Count goes to UDMA_CRC_Errors only
UdmaLineStored(st) ==
    /\ UDMA_CRC_ERRORS_name \in DOMAIN DiskAfter(st)
    /\ DiskAfter(st)[UDMA_CRC_ERRORS_name] = IntOrZero(RawOf(st))
    /\ Untouched(st, CRC_ERRORS_name)

\* any other code-199 line goes to CRC_Errors only
CrcLineStored(st) ==
    /\ CRC_ERRORS_name \in DOMAIN DiskAfter(st)
    /\ DiskAfter(st)[CRC_ERRORS_name] = IntOrZero(RawOf(st))
    /\ Untouched(st, UDMA_CRC_ERRORS_name)

(* C18 as stated: a code-199 line is stored under UDMA_CRC_Errors if its
   name is UDMA_CRC_Error_Count and under CRC_Errors for any other name,
   leaving the other key untouched. *)
C18_Code199ByName ==
    Parsing =>
        LET steps == Steps IN
        \A k \in DOMAIN steps :
            LET st == steps[k]
            IN Code199(st) =>
                IF NameOf(st) = UDMA_CRC_ERROR_COUNT
                THEN UdmaLineStored(st) ELSE CrcLineStored(st)

(* C18 amended: as above for every name other than Unknown_Attribute; a
   code-199 line named Unknown_Attribute touches neither key. *)
C18_Code199ByNameUnlessPlaceholder ==
    Parsing =>
        LET steps == Steps IN
        \A k \in DOMAIN steps :
            LET st == steps[k]
            IN Code199(st) =>
                IF NameOf(st) = UDMA_CRC_ERROR_COUNT THEN UdmaLineStored(st)
                ELSE IF Placeholder(st)
                     THEN /\ Untouched(st, CRC_ERRORS_name)
                          /\ Untouched(st, UDMA_CRC_ERRORS_name)
                     ELSE CrcLineStored(st)

\* both variants were parsed for one device and are kept apart
C18_Witness ==
    /\ ReturnedTabular
    /\ LET steps == Steps
       IN \E j, k \in DOMAIN steps :
             /\ Code199(steps[j]) /\ NameOf(steps[j]) = UDMA_CRC_ERROR_COUNT
             /\ Code199(steps[k]) /\ NameOf(steps[k]) = chars("CRC_Error_Count")
             /\ DeviceOf(steps[j]) = DeviceOf(steps[k])
             /\ parsed[DeviceOf(steps[j])][UDMA_CRC_ERRORS_name]
                   = IntOrZero(RawOf(steps[j]))
             /\ parsed[DeviceOf(steps[k])][CRC_ERRORS_name]
                   = IntOrZero(RawOf(steps[k]))
             /\ IntOrZero(RawOf(steps[j])) # IntOrZero(RawOf(steps[k]))

(* C19 as stated: a device's map built from tabular lines holds only
   canonical registry names and the private keys. *)
C19_OnlyCanonicalNames ==
    ReturnedTabular =>
        \A d \in DOMAIN parsed : DOMAIN parsed[d] \subseteq CanonicalKeys \cup PrivateKeys

(* C19 amended: a line with an unmapped code is not discarded: unless it
   is named Unknown_Attribute its textual name is a key of the device's map
   after the line, and the line adds or changes no other key. *)
C19_UnmappedKeptUnderOwnName ==
    Parsing =>
        LET steps == Steps IN
        \A k \in DOMAIN steps :
            LET st == steps[k]
            IN (Unmapped(st) /\ ~Placeholder(st)) =>
                /\ st.post.exc = ""
                /\ DOMAIN DiskAfter(st) = DOMAIN DiskBefore(st) \cup {NameOf(st)}
                /\ \A key \in DOMAIN DiskBefore(st) \ {NameOf(st)} : Untouched(st, key)
                /\ OthersUntouched(st)

\* the returned map holds a vendor name beside a canonical name
C19_Witness ==
    /\ ReturnedTabular
    /\ LET steps == Steps IN
       \E k \in DOMAIN steps :
          LET st == steps[k]
          IN /\ Unmapped(st) /\ ~Placeholder(st)
             /\ NameOf(st) \notin CanonicalKeys
             /\ NameOf(st) \in DOMAIN parsed[DeviceOf(st)]
             /\ DOMAIN parsed[DeviceOf(st)] \cap CanonicalKeys # {}

(* C20 as stated: a line with an unmapped code stores its raw value under
   its textual name exactly if the name is not yet a key of the device's
   map; if it is, the value under that name stays what it was. *)
C20_FirstUnmappedWins ==
    Parsing =>
        LET steps == Steps IN
        \A k \in DOMAIN steps :
            LET st == steps[k]
            IN Unmapped(st) =>
                /\ NameOf(st) \in DOMAIN DiskAfter(st)
                /\ DiskAfter(st)[NameOf(st)] =
                      IF NameOf(st) \in DOMAIN DiskBefore(st)
                      THEN DiskBefore(st)[NameOf(st)]
                      ELSE IntOrZero(RawOf(st))

(* C20 amended: as above for every textual name other than
   Unknown_Attribute; a line named Unknown_Attribute stores nothing. *)
C20_FirstUnmappedWinsUnlessPlaceholder ==
    Parsing =>
        LET steps == Steps IN
        \A k \in DOMAIN steps :
            LET st == steps[k]
            IN Unmapped(st) =>
                IF Placeholder(st) THEN DiskAfter(st) = DiskBefore(st)
                ELSE /\ NameOf(st) \in DOMAIN DiskAfter(st)
                     /\ DiskAfter(st)[NameOf(st)] =
                           IF NameOf(st) \in DOMAIN DiskBefore(st)
                           THEN DiskBefore(st)[NameOf(st)]
                           ELSE IntOrZero(RawOf(st))

\* a later unmapped line of the same name and another value changed nothing
C20_Witness ==
    /\ ReturnedTabular
    /\ LET steps == Steps
       IN \E j, k \in DOMAIN steps :
             /\ j < k
             /\ Unmapped(steps[j]) /\ Unmapped(steps[k]) /\ ~Placeholder(steps[j])
             /\ NameOf(steps[j]) = NameOf(steps[k])
             /\ DeviceOf(steps[j]) = DeviceOf(steps[k])
             /\ NameOf(steps[j]) \notin DOMAIN DiskBefore(steps[j])
             /\ IntOrZero(RawOf(steps[j])) # IntOrZero(RawOf(steps[k]))
             /\ parsed[DeviceOf(steps[k])][NameOf(steps[k])] = IntOrZero(RawOf(steps[j]))

\* the raw section without its tabular lines named Unknown_Attribute
not_placeholder_line(line) == ~(Len(line) >= 13 /\ line[5] = UNKNOWN_ATTRIBUTE)
WithoutPlaceholders(table) == SelectSeq(table, not_placeholder_line)

(* C21: parsing a raw section gives what parsing it without its tabular
   lines named Unknown_Attribute gives: such a line creates no attribute and
   no device record. *)
C21_PlaceholderLinesRemovable ==
    Parsing =>
        LET r == parse_raw_values(WithoutPlaceholders(arg_string_table))
        IN r.exc = exc /\ r.disks = parsed

(* C24: a key/value line with several colons after a device line is parsed
   without error, its key taken from the text before the first colon. *)
C24_SplitOnFirstColon ==
    (/\ Parsing
     /\ Len(arg_string_table) = 2
     /\ contains(arg_string_table[1][1], chars("/dev"))
     /\ ~contains(arg_string_table[2][1], chars("/dev"))
     /\ Len(split(join(chars(" "), arg_string_table[2]), ":")) > 2)
    => /\ exc = ""
       /\ replace(strip(split(join(chars(" "), arg_string_table[2]), ":")[1]),
                  " ", chars("_")) \in DOMAIN parsed[arg_string_table[1][1]]

(* C27: in every device map of the result the normalized value of
   Reallocated_Events is present exactly if its normalized threshold is. *)
C27_NormalizedPairTogether ==
    ReturnedTabular =>
        \A d \in DOMAIN parsed :
            NORMALIZED_VALUE_key \in DOMAIN parsed[d]
                <=> NORMALIZED_THRESHOLD_key \in DOMAIN parsed[d]

\* the line resolves to a canonical name through its code
Resolves(st) == Mapped(st) /\ ~Placeholder(st)

(* C30: when the parse returns, the value under a canonical name is that of
   the last line of the device that resolves to the name through a mapped
   code (code 199 included), whatever unmapped lines of that textual name
   come after it. *)
C30_LastMappedWins ==
    ReturnedTabular =>
        LET steps == Steps IN
        \A k \in DOMAIN steps :
            LET st == steps[k]
            IN (/\ Resolves(st)
                /\ \A j \in DOMAIN steps :
                      (j > k /\ Resolves(steps[j]) /\ DeviceOf(steps[j]) = DeviceOf(st))
                      => KeyOf(steps[j]) # KeyOf(st))
               => /\ KeyOf(st) \in DOMAIN parsed[DeviceOf(st)]
                  /\ parsed[DeviceOf(st)][KeyOf(st)] = IntOrZero(RawOf(st))

\* two lines of one device resolve to one name with different values
C30_Witness ==
    /\ ReturnedTabular
    /\ LET steps == Steps
       IN \E j, k \in DOMAIN steps :
             /\ j < k
             /\ Resolves(steps[j]) /\ Resolves(steps[k])
             /\ DeviceOf(steps[j]) = DeviceOf(steps[k])
             /\ KeyOf(steps[j]) = KeyOf(steps[k])
             /\ IntOrZero(RawOf(steps[j])) # IntOrZero(RawOf(steps[k]))
             /\ parsed[DeviceOf(steps[k])][KeyOf(steps[k])] = IntOrZero(RawOf(steps[k]))

----------------------------------------------------------------------------
(* Reading the pending parse: the effect of each key/value line *)

KeyValueLines == SelectSeq(arg_string_table, is_nvme_line)

\* what the key/value loop holds before its first line and after each line
RECURSIVE NvmeTrace(_, _)
NvmeTrace(acc, lines) ==
    IF lines = <<>> THEN <<acc>>
    ELSE <<acc>> \o NvmeTrace(_parse_nvme_loop(acc, <<Head(lines)>>), Tail(lines))

NvmeSteps ==
    LET lines == KeyValueLines
        trace == NvmeTrace(nvme_so_far(<<>>, <<>>, ""), lines)
    IN [k \in 1..Len(lines) |-> [line |-> lines[k], pre |-> trace[k], post |-> trace[k + 1]]]

IsDelimiter(line) == contains(line[1], chars("/dev"))

\* the key a reading is stored under: the text before the colon, trimmed,
\* spaces turned into underscores
FieldKey(line) == replace(strip(split(join(chars(" "), line), ":")[1]), " ", chars("_"))

\* the parse returned the key/value loop's mapping of the whole raw section
ReturnedKeyValue ==
    /\ Parsing
    /\ exc = ""
    /\ KeyValueLines = arg_string_table
    /\ parsed = _parse_nvme_lines(arg_string_table).disks

(* C23: a line whose first field contains '/dev' stores no attribute and
   leaves every record as it is, adding an empty record if the device is
   new; a reading after it is stored in the map of the device of the latest
   such line and changes no other device's map and no other key. *)
C23_GroupedByDelimiter ==
    Parsing =>
        LET steps == NvmeSteps IN
        \A k \in DOMAIN steps :
            LET st == steps[k]
                before == {j \in 1..(k - 1) : IsDelimiter(steps[j].line)}
            IN st.pre.exc = "" =>
                IF IsDelimiter(st.line)
                THEN /\ st.post.exc = ""
                     /\ st.line[1] \in DOMAIN st.post.disks
                     /\ \A d \in DOMAIN st.pre.disks : st.post.disks[d] = st.pre.disks[d]
                     /\ st.line[1] \notin DOMAIN st.pre.disks =>
                           st.post.disks[st.line[1]] = <<>>
                     /\ DOMAIN st.post.disks = DOMAIN st.pre.disks \cup {st.line[1]}
                ELSE (before # {} /\ st.post.exc = "") =>
                     LET last == CHOOSE j \in before : \A i \in before : i <= j
                         d == steps[last].line[1]
                     IN /\ DOMAIN st.post.disks = DOMAIN st.pre.disks
                        /\ \A e \in DOMAIN st.pre.disks \ {d} :
                              st.post.disks[e] = st.pre.disks[e]
                        /\ DOMAIN st.post.disks[d] =
                              DOMAIN st.pre.disks[d] \cup {FieldKey(st.line)}
                        /\ \A key \in DOMAIN st.pre.disks[d] \ {FieldKey(st.line)} :
                              st.post.disks[d][key] = st.pre.disks[d][key]

\* a device whose delimiter appears twice holds the readings of both groups,
\* and another device holds none of them
C23_Witness ==
    /\ ReturnedKeyValue
    /\ Len(arg_string_table) = 4
    /\ IsDelimiter(arg_string_table[1]) /\ ~IsDelimiter(arg_string_table[2])
    /\ arg_string_table[3] = arg_string_table[1]
    /\ ~IsDelimiter(arg_string_table[4])
    /\ FieldKey(arg_string_table[2]) # FieldKey(arg_string_table[4])
    /\ DOMAIN parsed[arg_string_table[1][1]] =
          {FieldKey(arg_string_table[2]), FieldKey(arg_string_table[4])}

----------------------------------------------------------------------------
(* Reading the pending parse: the two dialects *)

FieldsAtLeast13(line) == Len(line) >= 13
Fields3To6(line) == Len(line) \in 3..6
FieldsOfADialect(line) == FieldsAtLeast13(line) \/ Fields3To6(line)

\* what each sub-parser makes of the lines of its field count
TabularPart == _parse_ata_lines(SelectSeq(arg_string_table, FieldsAtLeast13))
KeyValuePart == _parse_nvme_lines(SelectSeq(arg_string_table, Fields3To6))

(* C22: the result is what the tabular sub-parser makes of the lines of 13
   or more fields and the key/value sub-parser of the lines of 3 to 6
   fields, and it is the result of parsing the raw section without its
   lines of any other field count. *)
C22_DispatchByFieldCount ==
    Parsing =>
        LET r == parse_raw_values(SelectSeq(arg_string_table, FieldsOfADialect))
            ata == TabularPart
            nvme == KeyValuePart
        IN /\ r.exc = exc /\ r.disks = parsed
           /\ exc = IF ata.exc # "" THEN ata.exc ELSE nvme.exc
           /\ exc = "" =>
                 /\ \A d \in DOMAIN parsed :
                       parsed[d] \in {DiskOf(ata.disks, d), DiskOf(nvme.disks, d)}
                 /\ DOMAIN parsed = DOMAIN ata.disks \cup DOMAIN nvme.disks

\* a 7-field line naming another device stands between a device line and a
\* reading: the reading is stored under the device line's device
C22_Witness ==
    /\ Parsing /\ exc = ""
    /\ Len(arg_string_table) = 3
    /\ Fields3To6(arg_string_table[1]) /\ IsDelimiter(arg_string_table[1])
    /\ Len(arg_string_table[2]) = 7 /\ IsDelimiter(arg_string_table[2])
    /\ Fields3To6(arg_string_table[3]) /\ ~IsDelimiter(arg_string_table[3])
    /\ DOMAIN parsed = {arg_string_table[1][1]}
    /\ FieldKey(arg_string_table[3]) \in DOMAIN parsed[arg_string_table[1][1]]

(* C28: the devices of the result are those of the two sub-parsers; a
   device of both has exactly the key/value sub-parser's map, a device of
   the tabular sub-parser alone has the tabular map. *)
C28_WholeRecordReplacement ==
    (Parsing /\ exc = "") =>
        LET ata == TabularPart.disks
            nvme == KeyValuePart.disks
        IN /\ DOMAIN parsed = DOMAIN ata \cup DOMAIN nvme
           /\ \A d \in DOMAIN nvme : parsed[d] = nvme[d]
           /\ \A d \in DOMAIN ata \ DOMAIN nvme : parsed[d] = ata[d]

\* a device of both dialects lost the attribute of its tabular line
C28_Witness ==
    /\ Parsing /\ exc = ""
    /\ \E d \in DOMAIN TabularPart.disks \cap DOMAIN KeyValuePart.disks :
          /\ TabularPart.disks[d] # <<>>
          /\ KeyValuePart.disks[d] # <<>>
          /\ DOMAIN parsed[d] \cap DOMAIN TabularPart.disks[d] = {}

----------------------------------------------------------------------------
(* C29: Reallocated_Events without a baseline value is reported normal and
   the normalized cross-check is not applied: the result has state OK and no
   hint, and the metric is the raw value, also when the reading's normalized
   value is at or below its normalized threshold. *)
C29_NoBaselineNoCrossCheck ==
    (/\ Evaluated
     /\ REALLOCATED_EVENTS \in DOMAIN Reading
     /\ REALLOCATED_EVENTS \notin DOMAIN arg_params)
    => /\ \A i \in ResultsFor(REALLOCATED_EVENTS) :
             out[i].state = OK /\ out[i].hints = <<>>
       /\ \A i \in MetricsFor(REALLOCATED_EVENTS) :
             out[i].value = Reading[REALLOCATED_EVENTS]
       /\ exc = "" => Reported(REALLOCATED_EVENTS)

\* the normalized value is at or below the normalized threshold, the
\* parameters have no Reallocated_Events, and the attribute was reported
C29_Witness ==
    /\ Evaluated
    /\ {REALLOCATED_EVENTS, NORMALIZED_VALUE, NORMALIZED_THRESHOLD} \subseteq DOMAIN Reading
    /\ REALLOCATED_EVENTS \notin DOMAIN arg_params
    /\ Reading[NORMALIZED_VALUE] <= Reading[NORMALIZED_THRESHOLD]
    /\ Reported(REALLOCATED_EVENTS)
    /\ Verdicts(REALLOCATED_EVENTS) = {OK}

----------------------------------------------------------------------------
(* Reading the branch an attribute takes in the pending call *)

Evaluable == {n \in RegistryNames : n \in DOMAIN Reading}
PathTaken(name) == path(name, Reading, arg_params)

\* the branch the attribute takes when it is the only key of the reading
PathAlone(name) == path(name, [n \in {name} |-> 0], arg_params)

\* the branch that the name and the parameters alone select
PathByIdentity(name) ==
    IF name = TEMPERATURE THEN "skipped"
    ELSE IF name = AVAILABLE_SPARE THEN "compared"
    ELSE IF name \notin DOMAIN arg_params THEN "informational"
    ELSE IF name = COMMAND_TIMEOUT_COUNTER THEN "rate-tracked"
    ELSE "compared"

\* what is yielded agrees with the branch taken
PathShowsInOutput(name) ==
    /\ PathTaken(name) = "skipped"
          => ResultsFor(name) = {} /\ MetricsFor(name) = {}
    /\ PathTaken(name) = "raises"
          => ResultsFor(name) = {} /\ exc # ""
    /\ PathTaken(name) = "informational"
          => \A i \in ResultsFor(name) : out[i].state = OK /\ out[i].hints = <<>>
    /\ PathTaken(name) = "rate-tracked"
          => ResultsFor(name) = {} \/ value_store[arg_item] # NoEntry
    /\ \A i \in MetricsFor(name) : out[i].value = Reading[name]

(* C25 as stated: with fixed parameters the branch an attribute takes
   (informational, compared against a reference, rate-tracked) is determined
   by the attribute's identity alone: whatever else the reading holds, the
   attribute takes the branch it takes when it is the reading's only key. *)
C25_PathStatic ==
    Evaluated => \A name \in Evaluable : PathTaken(name) = PathAlone(name)

(* C25 amended: with fixed parameters the branch is determined by the
   attribute's identity and by the presence of two kinds of keys in the
   reading, never by a value: Reallocated_Events with a baseline value is
   compared when the reading has both normalized keys and informational when
   one is missing; Available_Spare is compared when the reading has its
   threshold and the evaluation raises when it has not; every other
   attribute takes the branch its name and the parameters select. *)
C25_PathByIdentityAndKeys ==
    Evaluated =>
        \A name \in Evaluable :
            /\ PathTaken(name) =
                  IF name = AVAILABLE_SPARE
                     /\ AVAILABLE_SPARE_THRESHOLD \notin DOMAIN Reading
                  THEN "raises"
                  ELSE IF name = REALLOCATED_EVENTS
                          /\ ~ ({NORMALIZED_VALUE, NORMALIZED_THRESHOLD}
                                    \subseteq DOMAIN Reading)
                  THEN "informational"
                  ELSE PathByIdentity(name)
            /\ PathShowsInOutput(name)

\* Reallocated_Events has a baseline value below the reading's value and a
\* normalized key is missing: the attribute leaves the compared branch
C25_Witness ==
    /\ Evaluated
    /\ REALLOCATED_EVENTS \in DOMAIN Reading
    /\ REALLOCATED_EVENTS \in DOMAIN arg_params
    /\ NORMALIZED_VALUE \in DOMAIN Reading
    /\ NORMALIZED_THRESHOLD \notin DOMAIN Reading
    /\ Reading[REALLOCATED_EVENTS] > arg_params[REALLOCATED_EVENTS]
    /\ PathByIdentity(REALLOCATED_EVENTS) = "compared"
    /\ PathTaken(REALLOCATED_EVENTS) = "informational"
    /\ Verdicts(REALLOCATED_EVENTS) = {OK}

----------------------------------------------------------------------------
(* Reading an evaluation against a discovered baseline *)

DefaultPolicy ==
    RegistryNames \ {AVAILABLE_SPARE, REALLOCATED_EVENTS, COMMAND_TIMEOUT_COUNTER}

\* the pending call evaluates a service that discovery yielded
EvaluatedDiscovered ==
    /\ Evaluated
    /\ \E k \in 1..Len(services) :
          services[k] = Service(arg_item, arg_params)

\* the evaluated section is the one discovery ran on
SectionUnchanged == discover_smart_stats(arg_section) = services

(* C26: when the parameters are what discover_smart_stats yields on a section
   and check_smart_stats is run on that same section, no attribute under the
   default policy has a critical verdict, and each of them is reported when
   the evaluation completes; against a discovered baseline a default-policy
   verdict is critical only if the reading's value is above the discovered
   value. *)
C26_DiscoveredReadingIsNormal ==
    EvaluatedDiscovered =>
        \A name \in DefaultPolicy \cap DOMAIN Reading :
            /\ SectionUnchanged => Verdicts(name) \subseteq {OK}
            /\ CRIT \in Verdicts(name) =>
                  /\ name \in DOMAIN arg_params
                  /\ Reading[name] > arg_params[name]
            /\ (exc = "" /\ name # TEMPERATURE) => Reported(name)

\* a captured attribute with a value above zero is evaluated against the
\* baseline discovered from the same section and is reported normal
C26_Witness ==
    /\ EvaluatedDiscovered
    /\ SectionUnchanged
    /\ \E name \in DefaultPolicy \cap DOMAIN Reading :
          /\ name \in DOMAIN arg_params
          /\ Reading[name] > 0
          /\ Reported(name)
          /\ Verdicts(name) = {OK}

====
